---- MODULE Spec2Model ----
(***************************************************************************)
(* Model of the apartment-hunter service layer: the Listing, SavedProperty, *)
(* Viewing, Comparison, Tag and Property services over the relational      *)
(* store (with its unique indexes and foreign-key cascades) and the remote *)
(* image store.                                                            *)
(*                                                                         *)
(* A service call is an operator from the stores and the call's arguments  *)
(* to its result: the stores it leaves behind, the error it throws ("ok"   *)
(* when none) and the value it returns.  An action applies one call to the *)
(* current stores.  createListing, whose concurrent uploads interleave     *)
(* with other requests, is modelled step by step.                          *)
(***************************************************************************)
EXTENDS Integers, Sequences, FiniteSets, TLC

\* ---------------------------------------------------------------- bounds
\* Ids are never reused, so a run is bounded by the rows it may create.  A run
\* exercises one family of services (focus), each with its own budget.
MaxListingRows == 1     \* rows created in a listing run
MaxMarketRows == 2      \* SavedProperty and Viewing rows created in a market run
MaxComparisonRows == 2  \* Comparison rows created in a comparison run
MaxTagRows == 3         \* SavedProperty and Tag rows created in a tag run
MaxPropertyRows == 2    \* Property rows created in a property run
MaxImages == 2          \* remote objects uploaded in a listing run
MaxIntakeRows == 2      \* Listing, SavedProperty and Viewing rows created in an intake run
MaxIntakeImages == 1    \* remote objects uploaded in an intake run
MaxUserRows == 2        \* User rows created in an auth run
MaxGalleryRows == 1     \* Property rows created in a gallery run
MaxCatalogRows == 2     \* SavedProperty and Property rows created in a catalog run
MaxPagingRows == 2      \* Property rows created in a paging run

\* ---------------------------------------------------------------- values
Users == {"u1", "u2"}
NoUser == "anonymous"
NoId == 0
Families == {"listing", "market", "comparison", "tag", "property", "intake", "auth",
             "gallery", "catalog", "paging"}
NoName == "absent"
RawNames == {"a", " a", "b"} \* tag names as submitted
Statuses == {"saved", "viewed"}
FileCounts == {0, 1, 2}      \* files carried by one createListing request
Pages == {1, 2}
Limits == {1, 2}

Max(S) == CHOOSE m \in S : \A x \in S : x <= m
Min2(a, b) == IF a <= b THEN a ELSE b

Range(s) == {s[i] : i \in DOMAIN s}
SeqsUpTo(S, n) == UNION {[1..k -> S] : k \in 0..n}
RemoveKey(f, k) == [i \in DOMAIN f \ {k} |-> f[i]]
KeepKeys(f, K) == [i \in DOMAIN f \cap K |-> f[i]]

RECURSIVE SelectSeqBy(_, _)
\* Array.prototype.filter with membership in a set as the test
SelectSeqBy(s, S) ==
    IF s = <<>> THEN <<>>
    ELSE (IF Head(s) \in S THEN <<Head(s)>> ELSE <<>>) \o SelectSeqBy(Tail(s), S)

RECURSIVE SortDesc(_)
\* orderBy created_at desc: ids are handed out in creation order
SortDesc(S) == IF S = {} THEN <<>> ELSE <<Max(S)>> \o SortDesc(S \ {Max(S)})

\* skip / take of findMany
PageOf(s, skip, take) == SubSeq(s, skip + 1, Min2(Len(s), skip + take))

\* Math.ceil(total / limit) for total >= 0, limit >= 1
CeilDiv(total, limit) == (total + limit - 1) \div limit

RECURSIVE SortOn(_, _, _)
\* orderBy a column: k maps an id to the value of the column in its row
SortOn(S, k, dir) ==
    IF S = {} THEN <<>>
    ELSE LET first == CHOOSE x \in S :
                          \A y \in S : IF dir = "asc" THEN k[x] <= k[y] ELSE k[x] >= k[y]
         IN <<first>> \o SortOn(S \ {first}, k, dir)

\* ---------------------------------------------------------------- columns and queries
\* The bedrooms and price columns of a Listing or Property row.  The request
\* that creates the row with id i carries these values; the prices of the rows
\* of a run differ, and do not follow the order of creation.
Bedrooms(id) == 1 + (id % 3)
Price(id) == 100 * (1 + ((5 * id) % 7))

\* the bedrooms parameter of a list request (0: not given)
BedroomCounts == 0..3
\* the sort parameter of a list request: the controllers pass the query string
\* on as it is ("absent" when not given)
SortKeys == {"absent", "newest", "oldest", "price_asc", "price_desc", "bedrooms_desc",
             "price_low", "cheapest"}
\* String.prototype.startsWith('price')
StartsWithPrice(sortBy) == sortBy \in {"price_asc", "price_desc", "price_low"}

\* ---------------------------------------------------------------- image urls
\* A url is the path segment that marks an upload plus the public id.
Url(pid) == <<"upload", pid>>
BadUrl == <<"misc", 0>>
NoUrl == <<"none", 0>>
\* image lists a caller supplies with a Property
ImageLists == SeqsUpTo({Url(1), Url(2)}, 2) \cup {<<BadUrl>>}

\* getPublicIdFromUrl: null (0) when the path holds no 'upload' segment
getPublicIdFromUrl(url) == IF url[1] = "upload" THEN url[2] ELSE 0

\* ---------------------------------------------------------------- state
VARIABLES
    db,      \* the stores, a record of
             \*   listings:    Listing rows, id -> [user_id, is_active, image_urls]
             \*   savedProps:  SavedProperty rows, id -> [user_id, listing_id, status]
             \*   viewings:    Viewing rows, id -> [user_id, listing_id, saved_property_id, attended]
             \*   comparisons: Comparison rows, id -> [user_id, name, listing_ids]
             \*   tags:        Tag rows, id -> [user_id, name]
             \*   spTags:      SavedPropertyTag rows, <<saved_property_id, tag_id>>
             \*   properties:  Property rows, id -> [user_id, image_urls]
             \*   users:       User rows, id -> [email, password_hash, google_id, auth_provider]
             \*   remote:      public ids of the objects held by the image store
             \*   nextId, nextImg: the next row id and the next public id
    call,    \* the createListing call in flight
    focus,   \* the family of services this run exercises
    last     \* the last step that changed the stores or ended a createListing call

vars == <<db, call, focus, last>>

Idle == [stage |-> "idle", user |-> NoUser, listing |-> NoId,
         status |-> <<>>, url |-> <<>>, done |-> <<>>]

NoOut == <<>>
\* the result of a call
R(d, result, out) == [db |-> d, result |-> result, out |-> out]
Step(op, user, id, result, out) ==
    [op |-> op, user |-> user, id |-> id, result |-> result, out |-> out]

\* Listing rows that exist when a run of the family starts
Background(f) == CASE f = "market" -> 2
                   [] f = "comparison" -> 2
                   [] f = "tag" -> 1
                   [] f = "catalog" -> 2
                   [] OTHER -> 0
\* the largest id a run of the family hands out, and the ids its requests name
IdBudget == Background(focus) +
            CASE focus = "listing" -> MaxListingRows
              [] focus = "market" -> MaxMarketRows
              [] focus = "comparison" -> MaxComparisonRows
              [] focus = "tag" -> MaxTagRows
              [] focus = "property" -> MaxPropertyRows
              [] focus = "intake" -> MaxIntakeRows
              [] focus = "auth" -> MaxUserRows
              [] focus = "gallery" -> MaxGalleryRows
              [] focus = "catalog" -> MaxCatalogRows
              [] focus = "paging" -> MaxPagingRows
ReqIds == 0..IdBudget        \* 0 never exists
ImgBudget == Background(focus) +
             (IF focus = "intake" THEN MaxIntakeImages ELSE MaxImages)
UrlPool == {Url(p) : p \in 1..ImgBudget} \cup {BadUrl}

Empty == [i \in {} |-> 0]

\* The stores of a run of family f: empty, but for the Listing rows the family
\* works on, which earlier createListing calls (by u1, then by u2) left behind,
\* each with the one image the call uploaded.
InitStores(f) ==
    LET n == Background(f)
        owner(i) == IF i = 1 THEN "u1" ELSE "u2"
    IN /\ focus = f
       /\ db = [listings |-> [i \in 1..n |-> [user_id |-> owner(i), is_active |-> TRUE,
                                               image_urls |-> <<Url(i)>>]],
                savedProps |-> Empty, viewings |-> Empty, comparisons |-> Empty,
                tags |-> Empty, spTags |-> {}, properties |-> Empty, users |-> Empty,
                remote |-> 1..n, nextId |-> n + 1, nextImg |-> n + 1]
       /\ call = Idle
       /\ last = Step("init", NoUser, NoId, "ok", NoOut)

Init == \E f \in Families : InitStores(f)
InitListing == InitStores("listing")
InitMarket == InitStores("market")
InitComparison == InitStores("comparison")
InitTag == InitStores("tag")
InitProperty == InitStores("property")
InitIntake == InitStores("intake")
InitAuth == InitStores("auth")
InitGallery == InitStores("gallery")
InitCatalog == InitStores("catalog")
InitPaging == InitStores("paging")

\* ---------------------------------------------------------------- storage layer
\* DELETE FROM "Listing": SavedProperty and Viewing rows go with it (ON DELETE
\* CASCADE), and with the SavedProperty rows their SavedPropertyTag rows.
DeleteListingRow(d, id) ==
    LET sps == {s \in DOMAIN d.savedProps : d.savedProps[s].listing_id # id}
    IN [d EXCEPT !.listings = RemoveKey(@, id),
                 !.savedProps = KeepKeys(@, sps),
                 !.viewings = KeepKeys(@, {v \in DOMAIN @ : @[v].listing_id # id}),
                 !.spTags = {st \in @ : st[1] \in sps}]

\* DELETE FROM "SavedProperty": SavedPropertyTag rows cascade, Viewing links are
\* set to null.
DeleteSavedPropertyRow(d, id) ==
    [d EXCEPT !.savedProps = RemoveKey(@, id),
              !.spTags = {st \in @ : st[1] # id},
              !.viewings = [v \in DOMAIN @ |->
                              IF @[v].saved_property_id = id
                              THEN [@[v] EXCEPT !.saved_property_id = NoId]
                              ELSE @[v]]]

\* DELETE FROM "Tag": SavedPropertyTag rows cascade.
DeleteTagRow(d, id) ==
    [d EXCEPT !.tags = RemoveKey(@, id),
              !.spTags = {st \in @ : st[2] # id}]

\* SavedProperty_user_id_listing_id_key
SavedPairTaken(d, u, l) ==
    \E s \in DOMAIN d.savedProps :
        d.savedProps[s].user_id = u /\ d.savedProps[s].listing_id = l

\* a unique index on Tag.name alone
TagNameTakenByAnyUser(d, u, name, self) ==
    \E t \in DOMAIN d.tags \ {self} : d.tags[t].name = name

\* Tag_user_id_name_key, for a row other than `self`
TagNameTaken(d, u, name, self) ==
    \E t \in DOMAIN d.tags \ {self} : d.tags[t].user_id = u /\ d.tags[t].name = name

\* String.prototype.trim
Trim(name) == IF name = " a" THEN "a" ELSE name

\* ---------------------------------------------------------------- listing.service
\* findUnique({ where: { id, is_active: true } })
getListingById(d, id) ==
    IF id \in DOMAIN d.listings /\ d.listings[id].is_active
    THEN R(d, "ok", d.listings[id])
    ELSE R(d, "NotFoundError", NoOut)

\* the page object the Listing and SavedProperty list operations return
ListPage(sorted, page, limit) ==
    [items |-> PageOf(sorted, (page - 1) * limit, limit),
     totalCount |-> Len(sorted),
     page |-> page,
     limit |-> limit,
     totalPages |-> CeilDiv(Len(sorted), limit)]

\* isActive: "any" when the filter is not given
getMyListings(d, u, page, limit, isActive) ==
    LET where == {l \in DOMAIN d.listings :
                    /\ d.listings[l].user_id = u
                    /\ (isActive # "any" => d.listings[l].is_active = (isActive = "true"))}
    IN R(d, "ok", ListPage(SortDesc(where), page, limit))

\* the rows searchPublicListings matches
PublicWhere(d) == {l \in DOMAIN d.listings : d.listings[l].is_active}

\* ...(filter.bedrooms && { bedrooms: filter.bedrooms }) on top of is_active
SearchWhere(d, bedrooms) ==
    {l \in PublicWhere(d) : bedrooms # 0 => Bedrooms(l) = bedrooms}

\* the switch on sortBy: price_asc, price_desc, and created_at desc otherwise
SearchOrder(S, sortBy) ==
    CASE sortBy = "price_asc" -> SortOn(S, [l \in S |-> Price(l)], "asc")
      [] sortBy = "price_desc" -> SortOn(S, [l \in S |-> Price(l)], "desc")
      [] OTHER -> SortDesc(S)

\* searchPublicListings with a lookup of the saved properties that leaves out
\* user_id: the rows of every user count
searchPublicListingsSavedByAnyone(d, bedrooms, u, page, limit, sortBy) ==
    LET pg == ListPage(SearchOrder(SearchWhere(d, bedrooms), sortBy), page, limit)
        savedListingIds == IF u # NoUser /\ pg.items # <<>>
                           THEN {l \in Range(pg.items) :
                                   \E v \in Users : SavedPairTaken(d, v, l)}
                           ELSE {}
        mapped == [i \in DOMAIN pg.items |->
                     [id |-> pg.items[i], is_saved |-> pg.items[i] \in savedListingIds]]
    IN R(d, "ok", [pg EXCEPT !.items = mapped])

\* searchPublicListings with a bedrooms filter and a sort key
searchPublicListingsBy(d, bedrooms, u, page, limit, sortBy) ==
    LET pg == ListPage(SearchOrder(SearchWhere(d, bedrooms), sortBy), page, limit)
        savedListingIds == IF u # NoUser /\ pg.items # <<>>
                           THEN {l \in Range(pg.items) : SavedPairTaken(d, u, l)}
                           ELSE {}
        mapped == [i \in DOMAIN pg.items |->
                     [id |-> pg.items[i], is_saved |-> pg.items[i] \in savedListingIds]]
    IN R(d, "ok", [pg EXCEPT !.items = mapped])

\* searchPublicListings with an empty filter and no sort key
searchPublicListings(d, u, page, limit) ==
    searchPublicListingsBy(d, 0, u, page, limit, "absent")

\* What a caller sends to updateListing:
\*   active: updateData.is_active ("absent" when not supplied);
\*   keep: existingImageUrls;  n: number of files
UpdateListingRequests(d, id) ==
    LET current == IF id \in DOMAIN d.listings THEN d.listings[id].image_urls ELSE <<>>
    IN [active : {"absent", "true", "false"},
        keep : SeqsUpTo(UrlPool, 1) \cup {current},
        n : {0, 1}]

\* currentImageUrls.filter(url => !existingImageUrls.includes(url))
\*     .map(getPublicIdFromUrl).filter(id => id !== null)
deletePublicIds(currentImageUrls, existingImageUrls) ==
    {getPublicIdFromUrl(x) :
        x \in Range(SelectSeqBy(currentImageUrls,
                                Range(currentImageUrls) \ Range(existingImageUrls)))} \ {0}

\* What the outside world does to the call, as far as the call gets:
\*   upOk: the uploads that succeed;  delOk: the public ids whose deletion
\*   succeeds;  dbOk: the final write succeeds
UpdateListingOutcomes(d, id, u, req) ==
    LET reached == id \in DOMAIN d.listings /\ d.listings[id].user_id = u
        toDelete == IF reached THEN deletePublicIds(d.listings[id].image_urls, req.keep)
                    ELSE {}
    IN {env \in [upOk : SUBSET (1..req.n), delOk : SUBSET toDelete, dbOk : BOOLEAN] :
          /\ ~reached => env.upOk = 1..req.n
          /\ env.upOk # 1..req.n => env.delOk = {}
          /\ (~reached \/ env.upOk # 1..req.n) => env.dbOk}

updateListing(d, id, u, req, env) ==
    IF id \notin DOMAIN d.listings THEN R(d, "NotFoundError", NoOut)
    ELSE IF d.listings[id].user_id # u THEN R(d, "ForbiddenError", NoOut)
    ELSE
    LET currentImageUrls == d.listings[id].image_urls
        uploadedIds == d.nextImg .. (d.nextImg + Cardinality(env.upOk) - 1)
        \* after the uploads
        d1 == [d EXCEPT !.remote = @ \cup uploadedIds,
                        !.nextImg = @ + Cardinality(env.upOk)]
        \* after the deletions, whose failures are logged only
        d2 == [d1 EXCEPT !.remote = @ \ (deletePublicIds(currentImageUrls, req.keep)
                                           \cap env.delOk)]
        \* after the write of the row
        d3 == [d2 EXCEPT
                 !.listings[id].image_urls =
                     req.keep \o [k \in 1..req.n |-> Url(d.nextImg + k - 1)],
                 !.listings[id].is_active =
                     IF req.active = "absent" THEN @ ELSE req.active = "true"]
    IN IF env.upOk # 1..req.n THEN R(d1, "AuthError", NoOut)
       ELSE IF ~env.dbOk THEN R(d2, "StorageError", NoOut)
       ELSE R(d3, "ok", d3.listings[id])

\* soft delete
deleteListing(d, id, u) ==
    IF id \notin DOMAIN d.listings THEN R(d, "NotFoundError", NoOut)
    ELSE IF d.listings[id].user_id # u THEN R(d, "ForbiddenError", NoOut)
    ELSE R([d EXCEPT !.listings[id].is_active = FALSE], "ok", NoOut)

\* ---------------------------------------------------------------- savedProperty.service
\* saveListing over a store without SavedProperty_user_id_listing_id_key: the
\* insert of a second row for the pair goes through
saveListingWithoutUniqueIndex(d, u, l) ==
    IF ~(l \in DOMAIN d.listings /\ d.listings[l].is_active)
    THEN R(d, "NotFoundError", NoOut)
    ELSE R([d EXCEPT !.savedProps = @ @@ (d.nextId :>
                         [user_id |-> u, listing_id |-> l, status |-> "saved"]),
                     !.nextId = @ + 1],
           "ok", d.nextId)

\* saveListing looking the listing up by id alone, without is_active: true
saveListingOnAnyListing(d, u, l) ==
    IF l \notin DOMAIN d.listings THEN R(d, "NotFoundError", NoOut)
    ELSE IF SavedPairTaken(d, u, l) THEN R(d, "ValidationError", NoOut)
    ELSE R([d EXCEPT !.savedProps = @ @@ (d.nextId :>
                         [user_id |-> u, listing_id |-> l, status |-> "saved"]),
                     !.nextId = @ + 1],
           "ok", d.nextId)

saveListing(d, u, l) ==
    IF ~(l \in DOMAIN d.listings /\ d.listings[l].is_active)
    THEN R(d, "NotFoundError", NoOut)
    ELSE IF SavedPairTaken(d, u, l)
    THEN R(d, "ValidationError", NoOut)     \* P2002 from the unique index
    ELSE R([d EXCEPT !.savedProps = @ @@ (d.nextId :>
                         [user_id |-> u, listing_id |-> l, status |-> "saved"]),
                     !.nextId = @ + 1],
           "ok", d.nextId)

\* the rows of the user whose listing is active and, with a bedrooms filter,
\* has exactly that number of bedrooms
SavedWhere(d, u, bedrooms) ==
    {s \in DOMAIN d.savedProps :
        /\ d.savedProps[s].user_id = u
        /\ d.listings[d.savedProps[s].listing_id].is_active
        /\ bedrooms # 0 => Bedrooms(d.savedProps[s].listing_id) = bedrooms}

\* created_at desc, unless sortBy starts with 'price': then the price of the
\* listing, ascending for 'price_asc' and descending for anything else
SavedOrder(d, S, sortBy) ==
    IF StartsWithPrice(sortBy)
    THEN SortOn(S, [s \in S |-> Price(d.savedProps[s].listing_id)],
                IF sortBy = "price_asc" THEN "asc" ELSE "desc")
    ELSE SortDesc(S)

\* getSavedProperties with a bedrooms filter and a sort key
getSavedPropertiesBy(d, u, bedrooms, page, limit, sortBy) ==
    R(d, "ok", ListPage(SavedOrder(d, SavedWhere(d, u, bedrooms), sortBy), page, limit))

\* getSavedProperties with an empty filter and no sort key
getSavedProperties(d, u, page, limit) ==
    getSavedPropertiesBy(d, u, 0, page, limit, "absent")

updateSavedProperty(d, id, u, status) ==
    IF id \notin DOMAIN d.savedProps THEN R(d, "NotFoundError", NoOut)
    ELSE IF d.savedProps[id].user_id # u THEN R(d, "ForbiddenError", NoOut)
    ELSE R([d EXCEPT !.savedProps[id].status = status], "ok", NoOut)

\* deleteSavedProperty without the ownership check
deleteSavedPropertyOfAnyUser(d, id, u) ==
    IF id \notin DOMAIN d.savedProps THEN R(d, "NotFoundError", NoOut)
    ELSE R(DeleteSavedPropertyRow(d, id), "ok", NoOut)

deleteSavedProperty(d, id, u) ==
    IF id \notin DOMAIN d.savedProps THEN R(d, "NotFoundError", NoOut)
    ELSE IF d.savedProps[id].user_id # u THEN R(d, "ForbiddenError", NoOut)
    ELSE R(DeleteSavedPropertyRow(d, id), "ok", NoOut)

\* ---------------------------------------------------------------- viewing.service
\* scheduleViewing without the lookup of the caller's SavedProperty
scheduleViewingWithoutLink(d, u, l) ==
    IF ~(l \in DOMAIN d.listings /\ d.listings[l].is_active)
    THEN R(d, "NotFoundError", NoOut)
    ELSE R([d EXCEPT !.viewings = @ @@ (d.nextId :>
                         [user_id |-> u, listing_id |-> l,
                          saved_property_id |-> NoId, attended |-> FALSE]),
                     !.nextId = @ + 1],
           "ok", d.nextId)

scheduleViewing(d, u, l) ==
    IF ~(l \in DOMAIN d.listings /\ d.listings[l].is_active)
    THEN R(d, "NotFoundError", NoOut)
    ELSE LET found == {s \in DOMAIN d.savedProps :
                         d.savedProps[s].user_id = u /\ d.savedProps[s].listing_id = l}
             savedProperty == IF found = {} THEN NoId ELSE CHOOSE s \in found : TRUE
         IN R([d EXCEPT !.viewings = @ @@ (d.nextId :>
                            [user_id |-> u, listing_id |-> l,
                             saved_property_id |-> savedProperty, attended |-> FALSE]),
                        !.nextId = @ + 1],
              "ok", d.nextId)

updateViewing(d, id, u, attended) ==
    IF id \notin DOMAIN d.viewings THEN R(d, "NotFoundError", NoOut)
    ELSE IF d.viewings[id].user_id # u THEN R(d, "ForbiddenError", NoOut)
    ELSE R([d EXCEPT !.viewings[id].attended = attended], "ok", NoOut)

deleteViewing(d, id, u) ==
    IF id \notin DOMAIN d.viewings THEN R(d, "NotFoundError", NoOut)
    ELSE IF d.viewings[id].user_id # u THEN R(d, "ForbiddenError", NoOut)
    ELSE R([d EXCEPT !.viewings = RemoveKey(@, id)], "ok", NoOut)

\* ---------------------------------------------------------------- comparison.service
\* getDetailedListings with a findMany that leaves out is_active: true
ListingIdsExist(d, listingIds) ==
    \/ Len(listingIds) = 0
    \/ Cardinality({l \in DOMAIN d.listings : l \in Range(listingIds)}) = Len(listingIds)

\* getDetailedListings passes when it is given no id, or when findMany over the
\* active rows with an id in the list returns as many rows as the list is long
ListingIdsValid(d, listingIds) ==
    \/ Len(listingIds) = 0
    \/ Cardinality({l \in DOMAIN d.listings :
                      l \in Range(listingIds) /\ d.listings[l].is_active})
           = Len(listingIds)

createComparison(d, u, name, listingIds) ==
    IF Len(listingIds) < 2 THEN R(d, "ValidationError", NoOut)
    ELSE IF ~ListingIdsValid(d, listingIds) THEN R(d, "ValidationError", NoOut)
    ELSE R([d EXCEPT !.comparisons = @ @@ (d.nextId :>
                         [user_id |-> u, name |-> name, listing_ids |-> listingIds]),
                     !.nextId = @ + 1],
           "ok", d.nextId)

\* the rows of findMany as the storage layer hands them out, by id
listingsAsFound(listingIds, listings) == SortOn(listings, [l \in listings |-> l], "asc")

\* listingIds.map(id => listings.find(l => l.id === id)).filter(l => l !== undefined)
orderedListings(listingIds, listings) == SelectSeqBy(listingIds, listings)

getDetailedComparison(d, id, u) ==
    IF id \notin DOMAIN d.comparisons THEN R(d, "NotFoundError", NoOut)
    ELSE IF d.comparisons[id].user_id # u THEN R(d, "ForbiddenError", NoOut)
    ELSE IF ~ListingIdsValid(d, d.comparisons[id].listing_ids)
    THEN R(d, "ValidationError", NoOut)
    ELSE R(d, "ok", orderedListings(d.comparisons[id].listing_ids,
                                    {l \in DOMAIN d.listings :
                                        /\ l \in Range(d.comparisons[id].listing_ids)
                                        /\ d.listings[l].is_active}))

\* updateData of updateComparison: name is NoName when not supplied; given tells
\* whether listing_ids is supplied (an empty array is supplied, and truthy)
UpdateComparisonInputs ==
    {in \in [name : {NoName, "n2"}, given : BOOLEAN, listing_ids : SeqsUpTo(ReqIds, 2)] :
        ~in.given => in.listing_ids = <<>>}

\* updateComparison with the length check written as if an empty array were
\* falsy, as an absent one is
updateComparisonSkippingEmptyList(d, id, u, in) ==
    IF id \notin DOMAIN d.comparisons THEN R(d, "NotFoundError", NoOut)
    ELSE IF d.comparisons[id].user_id # u THEN R(d, "ForbiddenError", NoOut)
    ELSE IF in.given /\ Len(in.listing_ids) > 0 /\ Len(in.listing_ids) < 2
    THEN R(d, "ValidationError", NoOut)
    ELSE IF in.given /\ ~ListingIdsValid(d, in.listing_ids)
    THEN R(d, "ValidationError", NoOut)
    ELSE R([d EXCEPT !.comparisons[id].name = IF in.name = NoName THEN @ ELSE in.name,
                     !.comparisons[id].listing_ids =
                         IF in.given THEN in.listing_ids ELSE @],
           "ok", NoOut)

updateComparison(d, id, u, in) ==
    IF id \notin DOMAIN d.comparisons THEN R(d, "NotFoundError", NoOut)
    ELSE IF d.comparisons[id].user_id # u THEN R(d, "ForbiddenError", NoOut)
    ELSE IF in.given /\ Len(in.listing_ids) < 2 THEN R(d, "ValidationError", NoOut)
    ELSE IF in.given /\ ~ListingIdsValid(d, in.listing_ids)
    THEN R(d, "ValidationError", NoOut)
    ELSE R([d EXCEPT !.comparisons[id].name = IF in.name = NoName THEN @ ELSE in.name,
                     !.comparisons[id].listing_ids =
                         IF in.given THEN in.listing_ids ELSE @],
           "ok", NoOut)

deleteComparison(d, id, u) ==
    IF id \notin DOMAIN d.comparisons THEN R(d, "NotFoundError", NoOut)
    ELSE IF d.comparisons[id].user_id # u THEN R(d, "ForbiddenError", NoOut)
    ELSE R([d EXCEPT !.comparisons = RemoveKey(@, id)], "ok", NoOut)

\* ---------------------------------------------------------------- tag.service
createTag(d, u, raw) ==
    IF TagNameTaken(d, u, Trim(raw), NoId)
    THEN R(d, "ValidationError", NoOut)     \* P2002 from the unique index
    ELSE R([d EXCEPT !.tags = @ @@ (d.nextId :> [user_id |-> u, name |-> Trim(raw)]),
                     !.nextId = @ + 1],
           "ok", d.nextId)

\* raw is NoName when no name is supplied (name?.trim() is then undefined)
updateTag(d, id, u, raw) ==
    IF id \notin DOMAIN d.tags THEN R(d, "NotFoundError", NoOut)
    ELSE IF d.tags[id].user_id # u THEN R(d, "ForbiddenError", NoOut)
    ELSE IF raw # NoName /\ TagNameTaken(d, u, Trim(raw), id)
    THEN R(d, "ValidationError", NoOut)     \* P2002 from the unique index
    ELSE R([d EXCEPT !.tags[id].name = IF raw = NoName THEN @ ELSE Trim(raw)],
           "ok", NoOut)

\* deleteTag reporting a tag of another user the way addTagToSavedProperty does
deleteTagHidingForeignTags(d, id, u) ==
    IF id \notin DOMAIN d.tags \/ d.tags[id].user_id # u THEN R(d, "NotFoundError", NoOut)
    ELSE R(DeleteTagRow(d, id), "ok", NoOut)

deleteTag(d, id, u) ==
    IF id \notin DOMAIN d.tags THEN R(d, "NotFoundError", NoOut)
    ELSE IF d.tags[id].user_id # u THEN R(d, "ForbiddenError", NoOut)
    ELSE R(DeleteTagRow(d, id), "ok", NoOut)

\* addTagToSavedProperty checking that the tag exists, not whose it is
addTagOfAnyUser(d, u, sp, tag) ==
    IF sp \notin DOMAIN d.savedProps \/ d.savedProps[sp].user_id # u
    THEN R(d, "NotFoundError", NoOut)
    ELSE IF tag \notin DOMAIN d.tags THEN R(d, "NotFoundError", NoOut)
    ELSE IF <<sp, tag>> \in d.spTags THEN R(d, "ValidationError", NoOut)
    ELSE R([d EXCEPT !.spTags = @ \cup {<<sp, tag>>}], "ok", NoOut)

addTagToSavedProperty(d, u, sp, tag) ==
    IF sp \notin DOMAIN d.savedProps \/ d.savedProps[sp].user_id # u
    THEN R(d, "NotFoundError", NoOut)
    ELSE IF tag \notin DOMAIN d.tags \/ d.tags[tag].user_id # u
    THEN R(d, "NotFoundError", NoOut)
    ELSE IF <<sp, tag>> \in d.spTags
    THEN R(d, "ValidationError", NoOut)     \* P2002 from the primary key
    ELSE R([d EXCEPT !.spTags = @ \cup {<<sp, tag>>}], "ok", NoOut)

removeTagFromSavedProperty(d, u, sp, tag) ==
    IF sp \notin DOMAIN d.savedProps \/ d.savedProps[sp].user_id # u
    THEN R(d, "NotFoundError", NoOut)
    ELSE IF <<sp, tag>> \notin d.spTags
    THEN R(d, "NotFoundError", NoOut)       \* deleteMany removed nothing
    ELSE R([d EXCEPT !.spTags = @ \ {<<sp, tag>>}], "ok", NoOut)

\* ---------------------------------------------------------------- property.service
\* "ok", or the error verifyPropertyOwnership throws
verifyPropertyOwnership(d, id, u) ==
    IF id \notin DOMAIN d.properties THEN "NotFoundError"
    ELSE IF d.properties[id].user_id # u THEN "ForbiddenError"
    ELSE "ok"

\* data.image_urls || []
createProperty(d, u, imageUrls) ==
    R([d EXCEPT !.properties = @ @@ (d.nextId :> [user_id |-> u, image_urls |-> imageUrls]),
                !.nextId = @ + 1],
      "ok", d.nextId)

\* data: the image_urls field of a PropertyUpdateInput
updateProperty(d, id, u, data) ==
    IF verifyPropertyOwnership(d, id, u) # "ok"
    THEN R(d, verifyPropertyOwnership(d, id, u), NoOut)
    ELSE R([d EXCEPT !.properties[id].image_urls = data], "ok", NoOut)

\* What the image store does to a deleteProperty call: failAt is the position of
\* the url whose deletion throws err (0: none does)
DeletePropertyInputs(d, id) ==
    LET urls == IF id \in DOMAIN d.properties THEN d.properties[id].image_urls ELSE <<>>
    IN {in \in [failAt : {0, 1, 2}, err : {"AuthError", "NotFoundError"}] :
          /\ in.failAt \in 0..Len(urls)
          /\ in.failAt = 0 => in.err = "AuthError"
          /\ in.failAt # 0 => getPublicIdFromUrl(urls[in.failAt]) # 0}

\* the loop over image_urls awaits each deletion, then the row is deleted
deleteProperty(d, id, u, in) ==
    IF verifyPropertyOwnership(d, id, u) # "ok"
    THEN R(d, verifyPropertyOwnership(d, id, u), NoOut)
    ELSE
    LET urls == d.properties[id].image_urls
        upTo == IF in.failAt = 0 THEN Len(urls) ELSE in.failAt - 1
        gone == {getPublicIdFromUrl(urls[i]) : i \in 1..upTo} \ {0}
        d1 == [d EXCEPT !.remote = @ \ gone]
    IN IF in.failAt # 0 THEN R(d1, in.err, NoOut)
       ELSE R([d1 EXCEPT !.properties = RemoveKey(@, id)], "ok", NoOut)

\* the image limit addPropertyImages enforces
PropertyImageCap == 50

\* What the outside world does to an addPropertyImages call of n files:
\*   failAt: the position of the upload that throws (0: none does);
\*   dbOk: the write of the row succeeds;
\*   cleaned: the uploads whose object the catch block manages to delete
AddPropertyImagesOutcomes(d, id, u, n) ==
    LET reached == /\ verifyPropertyOwnership(d, id, u) = "ok"
                   /\ Len(d.properties[id].image_urls) + n <= PropertyImageCap
    IN {env \in [failAt : 0..n, dbOk : BOOLEAN, cleaned : SUBSET (1..n)] :
          /\ ~reached => (env.failAt = 0 /\ env.dbOk /\ env.cleaned = {})
          /\ env.failAt # 0 => (env.dbOk /\ env.cleaned \subseteq 1..(env.failAt - 1))
          /\ (env.failAt = 0 /\ env.dbOk) => env.cleaned = {}}

\* addPropertyImages with a catch block that cleans up only when the write of
\* the row fails, not when an upload does
addPropertyImagesCleaningAfterTheWriteOnly(d, id, u, n, env) ==
    IF verifyPropertyOwnership(d, id, u) # "ok"
    THEN R(d, verifyPropertyOwnership(d, id, u), NoOut)
    ELSE IF Len(d.properties[id].image_urls) + n > PropertyImageCap
    THEN R(d, "ForbiddenError", NoOut)
    ELSE
    LET k == IF env.failAt = 0 THEN n ELSE env.failAt - 1
        pid(j) == d.nextImg + j - 1
        publicIdsToCleanUp == {pid(j) : j \in 1..k}
        d1 == [d EXCEPT !.remote = @ \cup {pid(j) : j \in 1..k}, !.nextImg = @ + k]
        cleanedUp == [d1 EXCEPT !.remote = @ \ {pid(j) : j \in env.cleaned}]
        d2 == [d1 EXCEPT !.properties[id].image_urls = @ \o [j \in 1..n |-> Url(pid(j))]]
    IN IF env.failAt # 0 THEN R(d1, "AuthError", [issued |-> {}])
       ELSE IF ~env.dbOk THEN R(cleanedUp, "StorageError", [issued |-> publicIdsToCleanUp])
       ELSE R(d2, "ok", d2.properties[id])

\* the files are uploaded one after the other, then the row is written; if an
\* upload or the write throws, the objects uploaded so far are deleted without
\* waiting and the error is rethrown.  A failed call returns nothing: `issued`
\* notes the public ids for which it called deleteImageFromCloudinary
addPropertyImages(d, id, u, n, env) ==
    IF verifyPropertyOwnership(d, id, u) # "ok"
    THEN R(d, verifyPropertyOwnership(d, id, u), NoOut)
    ELSE IF Len(d.properties[id].image_urls) + n > PropertyImageCap
    THEN R(d, "ForbiddenError", NoOut)
    ELSE
    LET k == IF env.failAt = 0 THEN n ELSE env.failAt - 1
        pid(j) == d.nextImg + j - 1
        publicIdsToCleanUp == {pid(j) : j \in 1..k}
        d1 == [d EXCEPT !.remote = @ \cup {pid(j) : j \in 1..k}, !.nextImg = @ + k]
        cleanedUp == [d1 EXCEPT !.remote = @ \ {pid(j) : j \in env.cleaned}]
        d2 == [d1 EXCEPT !.properties[id].image_urls = @ \o [j \in 1..n |-> Url(pid(j))]]
    IN IF env.failAt # 0 THEN R(cleanedUp, "AuthError", [issued |-> publicIdsToCleanUp])
       ELSE IF ~env.dbOk THEN R(cleanedUp, "StorageError", [issued |-> publicIdsToCleanUp])
       ELSE R(d2, "ok", d2.properties[id])

\* what deleteImageFromCloudinary does to a deletePropertyImage call
DeleteImageOutcomes == {"ok", "AuthError", "NotFoundError"}

\* the remote object is deleted first (a failure is thrown on), then the url is
\* filtered out of the stored list
deletePropertyImage(d, id, u, imageUrl, outcome) ==
    IF verifyPropertyOwnership(d, id, u) # "ok"
    THEN R(d, verifyPropertyOwnership(d, id, u), NoOut)
    ELSE IF getPublicIdFromUrl(imageUrl) = 0 THEN R(d, "NotFoundError", NoOut)
    ELSE IF outcome # "ok" THEN R(d, outcome, NoOut)
    ELSE LET d1 == [d EXCEPT !.remote = @ \ {getPublicIdFromUrl(imageUrl)},
                             !.properties[id].image_urls =
                                 SelectSeqBy(@, Range(@) \ {imageUrl})]
         IN R(d1, "ok", d1.properties[id])

\* reorderPropertyImages without the membership check: only the lengths are compared
reorderPropertyImagesByLengthOnly(d, id, u, imageUrls) ==
    IF verifyPropertyOwnership(d, id, u) # "ok"
    THEN R(d, verifyPropertyOwnership(d, id, u), NoOut)
    ELSE IF Len(d.properties[id].image_urls) # Len(imageUrls)
    THEN R(d, "ValidationError", NoOut)
    ELSE LET d1 == [d EXCEPT !.properties[id].image_urls = imageUrls]
         IN R(d1, "ok", d1.properties[id])

reorderPropertyImages(d, id, u, imageUrls) ==
    IF verifyPropertyOwnership(d, id, u) # "ok"
    THEN R(d, verifyPropertyOwnership(d, id, u), NoOut)
    ELSE IF Len(d.properties[id].image_urls) # Len(imageUrls)
    THEN R(d, "ValidationError", NoOut)
    ELSE IF ~(\A i \in DOMAIN imageUrls : imageUrls[i] \in Range(d.properties[id].image_urls))
    THEN R(d, "ValidationError", NoOut)
    ELSE LET d1 == [d EXCEPT !.properties[id].image_urls = imageUrls]
         IN R(d1, "ok", d1.properties[id])

\* calculatePagination: totalPages is at least 1
calculatePagination(total, limit, page) ==
    [page |-> page, limit |-> limit, total |-> total,
     totalPages |-> IF CeilDiv(total, limit) = 0 THEN 1 ELSE CeilDiv(total, limit)]

\* filter.limit && filter.limit > 0 ? filter.limit : 20  (0: not given)
DefaultPropertyLimit == 20
PropertyLimit(limit) == IF limit > 0 THEN limit ELSE DefaultPropertyLimit
PropertyPage(page) == IF page > 0 THEN page ELSE 1

\* buildWhereClause: the rows of the owner (every row when userId is not
\* passed) with at least filter.min_bedrooms || filter.bedrooms bedrooms
buildWhereClause(d, owner, minBedrooms, bedrooms) ==
    {p \in DOMAIN d.properties :
        /\ owner # NoUser => d.properties[p].user_id = owner
        /\ Bedrooms(p) >= (IF minBedrooms # 0 THEN minBedrooms ELSE bedrooms)}

\* the switch on filter.sort of browseAllProperties and listMyProperties
PropertyOrder(S, sort) ==
    CASE sort = "price_asc" -> SortOn(S, [p \in S |-> Price(p)], "asc")
      [] sort = "price_desc" -> SortOn(S, [p \in S |-> Price(p)], "desc")
      [] sort = "oldest" -> SortOn(S, [p \in S |-> p], "asc")
      [] sort = "bedrooms_desc" -> SortOn(S, [p \in S |-> Bedrooms(p)], "desc")
      [] OTHER -> SortDesc(S)

\* browseAllProperties (owner = NoUser) and listMyProperties with a bedrooms
\* filter and a sort key, when no write falls between the count and the findMany
PropertyListBy(d, owner, bedrooms, page, limit, sort) ==
    LET where == buildWhereClause(d, owner, 0, bedrooms)
        lim == PropertyLimit(limit)
        pg == PropertyPage(page)
    IN R(d, "ok", [items |-> PageOf(PropertyOrder(where, sort), (pg - 1) * lim, lim),
                   pagination |-> calculatePagination(Cardinality(where), lim, pg)])

\* browseAllProperties (owner = NoUser) and listMyProperties: count, then findMany
PropertyList(d, owner, page, limit) == PropertyListBy(d, owner, 0, page, limit, "absent")

browseAllProperties(d, page, limit) == PropertyList(d, NoUser, page, limit)

listMyProperties(d, u, page, limit) == PropertyList(d, u, page, limit)

\* ---------------------------------------------------------------- auth.service
Emails == {"e1", "e2"}
Passwords == {"p1", "p2"}
GoogleIds == {"g1", "g2"}
Null == "null"

\* bcrypt.hash and bcrypt.compare
hashPassword(password) == <<"hash", password>>
comparePassword(password, hash) == hash = hashPassword(password)

\* findUnique({ where: { email } }) and findUnique({ where: { google_id } }):
\* the ids of the rows found (at most one, by User_email_key and User_google_id_key)
UsersByEmail(d, email) == {i \in DOMAIN d.users : d.users[i].email = email}
UsersByGoogleId(d, googleId) == {i \in DOMAIN d.users : d.users[i].google_id = googleId}

\* the row without its password_hash
sanitizeUser(user) == [email |-> user.email, google_id |-> user.google_id,
                       auth_provider |-> user.auth_provider]

registerUser(d, email, password) ==
    IF UsersByEmail(d, email) # {} THEN R(d, "AuthError", NoOut)
    ELSE LET newUser == [email |-> email, password_hash |-> hashPassword(password),
                         google_id |-> Null, auth_provider |-> "local"]
         IN R([d EXCEPT !.users = @ @@ (d.nextId :> newUser), !.nextId = @ + 1],
              "ok", sanitizeUser(newUser))

loginUser(d, email, password) ==
    IF UsersByEmail(d, email) = {} THEN R(d, "AuthError", NoOut)
    ELSE LET user == d.users[CHOOSE i \in UsersByEmail(d, email) : TRUE]
         IN IF user.auth_provider # "local" THEN R(d, "AuthError", NoOut)
            ELSE IF user.password_hash = Null THEN R(d, "AuthError", NoOut)
            ELSE IF ~comparePassword(password, user.password_hash)
            THEN R(d, "AuthError", NoOut)
            ELSE R(d, "ok", sanitizeUser(user))

\* by google id: the provider is refreshed;  by email: the google id is linked
\* and password_hash is written as user.password_hash || null, that is, kept;
\* otherwise a row without password_hash is created
findOrCreateGoogleUser(d, googleId, email) ==
    IF UsersByGoogleId(d, googleId) # {}
    THEN LET i == CHOOSE j \in UsersByGoogleId(d, googleId) : TRUE
             d1 == [d EXCEPT !.users[i].auth_provider = "google"]
         IN R(d1, "ok", sanitizeUser(d1.users[i]))
    ELSE IF UsersByEmail(d, email) # {}
    THEN LET i == CHOOSE j \in UsersByEmail(d, email) : TRUE
             d1 == [d EXCEPT !.users[i].google_id = googleId,
                             !.users[i].auth_provider = "google",
                             !.users[i].password_hash = @]
         IN R(d1, "ok", sanitizeUser(d1.users[i]))
    ELSE LET newUser == [email |-> email, password_hash |-> Null,
                         google_id |-> googleId, auth_provider |-> "google"]
         IN R([d EXCEPT !.users = @ @@ (d.nextId :> newUser), !.nextId = @ + 1],
              "ok", sanitizeUser(newUser))

\* ---------------------------------------------------------------- error middleware
\* res.statusCode of a response on which no status was set
DefaultStatusCode == 200
InternalErrorStatus == 500

\* errorHandler: the status of the error response, given the error and the
\* status the response carries when the handler is reached
errorHandler(err, statusCode) ==
    IF statusCode = DefaultStatusCode THEN InternalErrorStatus ELSE statusCode

\* a controller: the status of the response to a service call with the given
\* result; on an error it calls next(error) and has set no status
Respond(result) ==
    IF result = "ok" THEN DefaultStatusCode ELSE errorHandler(result, DefaultStatusCode)

\* ---------------------------------------------------------------- createListing
Pending(c) == {i \in DOMAIN c.status : c.status[i] = "pending"}
Failed(c) == {i \in DOMAIN c.status : c.status[i] = "fail"}
Uploaded(c) == {getPublicIdFromUrl(c.url[i]) : i \in {j \in DOMAIN c.status : c.status[j] = "ok"}}

\* the urls in the order in which the uploads settled
newImageUrlsAsSettled(c) == [k \in 1..Len(c.done) |-> c.url[c.done[k]]]

\* Promise.all(...).map(res => res.secure_url): the results in the order of the files
newImageUrls(c) == c.url

\* the call is over once it has reported and no upload is left in flight
Drained(c) == IF c.stage = "draining" /\ Pending(c) = {} THEN Idle ELSE c

\* what a finished createListing call leaves in `last`: the urls its uploads
\* returned, by file, the order in which the uploads settled, and the public ids
\* of the objects it stored
Report(c, result) ==
    Step("createListing", c.user, c.listing, result,
         [urls |-> c.url, done |-> c.done, uploaded |-> Uploaded(c)])

\* createListing up to its first await on the uploads: the empty-files check
\* (ValidationError, nothing written) and the insert of the row with a
\* placeholder image list
CreateListingStart(u, n) ==
    /\ call.stage = "idle"
    /\ IF n = 0
       THEN UNCHANGED <<db, call, last>>
       ELSE /\ db.nextId <= IdBudget
            /\ db.nextImg + n - 1 <= ImgBudget
            /\ db' = [db EXCEPT !.listings = @ @@ (db.nextId :>
                         [user_id |-> u, is_active |-> TRUE, image_urls |-> <<>>]),
                                !.nextId = @ + 1]
            /\ call' = [stage |-> "uploading", user |-> u, listing |-> db.nextId,
                        status |-> [i \in 1..n |-> "pending"],
                        url |-> [i \in 1..n |-> NoUrl], done |-> <<>>]
            /\ last' = Step("createListing", u, db.nextId, "pending", NoOut)
    /\ UNCHANGED focus

\* one uploadImageToCloudinary of the call settles: the object is stored and its
\* url returned, or the upload throws
UploadSettles(i, ok) ==
    /\ call.stage \in {"uploading", "draining"}
    /\ i \in Pending(call)
    /\ IF ok
       THEN /\ db' = [db EXCEPT !.remote = @ \cup {db.nextImg}, !.nextImg = @ + 1]
            /\ call' = Drained([call EXCEPT !.status[i] = "ok", !.url[i] = Url(db.nextImg),
                                            !.done = Append(@, i)])
       ELSE /\ UNCHANGED db
            /\ call' = Drained([call EXCEPT !.status[i] = "fail", !.done = Append(@, i)])
    /\ last' = Step("upload", call.user, call.listing, IF ok THEN "ok" ELSE "AuthError", i)
    /\ UNCHANGED focus

\* the catch block: prisma.listing.delete(...).catch(log), then rethrow
Rollback(d, c, delOk) ==
    IF delOk /\ c.listing \in DOMAIN d.listings THEN DeleteListingRow(d, c.listing) ELSE d

\* every upload succeeded: the image list is written, or the write fails and the
\* catch block runs
CreateListingResolves(dbOk, delOk) ==
    /\ call.stage = "uploading"
    /\ Pending(call) = {} /\ Failed(call) = {}
    /\ IF dbOk /\ call.listing \in DOMAIN db.listings
       THEN /\ db' = [db EXCEPT !.listings[call.listing].image_urls = newImageUrls(call)]
            /\ last' = Report(call, "ok")
       ELSE /\ db' = Rollback(db, call, delOk)
            /\ last' = Report(call, "StorageError")
    /\ call' = Idle
    /\ UNCHANGED focus

\* Promise.all rejects on the first failed upload, while other uploads may still
\* be in flight: the catch block runs and the AuthError of the upload is rethrown
CreateListingRejects(delOk) ==
    /\ call.stage = "uploading"
    /\ Failed(call) # {}
    /\ db' = Rollback(db, call, delOk)
    /\ last' = Report(call, "AuthError")
    /\ call' = Drained([call EXCEPT !.stage = "draining"])
    /\ UNCHANGED focus

\* ---------------------------------------------------------------- property lists
\* browseAllProperties (owner = NoUser) and listMyProperties up to their first
\* await: prisma.property.count({ where }) is answered and kept in `total`
PropertyListCounts(owner, page, limit) ==
    /\ call.stage = "idle"
    /\ call' = [stage |-> "counted", owner |-> owner, page |-> page, limit |-> limit,
                total |-> Cardinality(buildWhereClause(db, owner, 0, 0))]
    /\ UNCHANGED <<db, focus, last>>

\* the second await: findMany is answered from the rows stored by then, and
\* the call returns the page with the pagination computed from `total`;
\* `matching` notes how many rows matched when the page was read
PropertyListFinds ==
    /\ call.stage = "counted"
    /\ LET where == buildWhereClause(db, call.owner, 0, 0)
           lim == PropertyLimit(call.limit)
           pg == PropertyPage(call.page)
       IN last' = Step(IF call.owner = NoUser THEN "browseAllProperties"
                                              ELSE "listMyProperties",
                       call.owner, NoId, "ok",
                       [items |-> PageOf(PropertyOrder(where, "absent"), (pg - 1) * lim, lim),
                        pagination |-> calculatePagination(call.total, lim, pg),
                        matching |-> Cardinality(where)])
    /\ call' = Idle
    /\ UNCHANGED <<db, focus>>

\* ---------------------------------------------------------------- registerUser
\* registerUser up to its await on hashPassword: findUnique found no row with
\* the email (when it finds one the call throws at once, as in registerUser)
RegisterUserChecks(email, password) ==
    /\ call.stage = "idle"
    /\ UsersByEmail(db, email) = {}
    /\ call' = [stage |-> "registering", email |-> email, password |-> password]
    /\ UNCHANGED <<db, focus, last>>

\* prisma.user.create of the call: User_email_key rejects the insert when a
\* row with the email was stored since the check, and the error of the storage
\* layer leaves the call as it is, there being no catch
RegisterUserCreates ==
    /\ call.stage = "registering"
    /\ IF UsersByEmail(db, call.email) # {}
       THEN /\ UNCHANGED db
            /\ last' = Step("registerUser", NoUser, NoId, "StorageError", call.email)
       ELSE LET newUser == [email |-> call.email,
                            password_hash |-> hashPassword(call.password),
                            google_id |-> Null, auth_provider |-> "local"]
            IN /\ db.nextId <= IdBudget
               /\ db' = [db EXCEPT !.users = @ @@ (db.nextId :> newUser), !.nextId = @ + 1]
               /\ last' = Step("registerUser", NoUser, NoId, "ok", sanitizeUser(newUser))
    /\ call' = Idle
    /\ UNCHANGED focus

\* ---------------------------------------------------------------- requests
\* One call of a service operation, applied to the stores.  A call that leaves
\* the stores as they are (a read, a rejected request) changes nothing at all.
Apply(op, u, id, r) ==
    /\ r.db.nextId <= IdBudget + 1
    /\ r.db.nextImg <= ImgBudget + 1
    /\ db' = r.db
    /\ last' = IF r.db = db THEN last ELSE Step(op, u, id, r.result, r.out)
    /\ UNCHANGED <<call, focus>>

GetListingById(id) == Apply("getListingById", NoUser, id, getListingById(db, id))
GetMyListings(u, page, limit, isActive) ==
    Apply("getMyListings", u, NoId, getMyListings(db, u, page, limit, isActive))
SearchPublicListings(u, page, limit) ==
    Apply("searchPublicListings", u, NoId, searchPublicListings(db, u, page, limit))
UpdateListing(id, u) ==
    \E req \in UpdateListingRequests(db, id) :
        \E env \in UpdateListingOutcomes(db, id, u, req) :
            Apply("updateListing", u, id, updateListing(db, id, u, req, env))
DeleteListing(id, u) == Apply("deleteListing", u, id, deleteListing(db, id, u))
\* an updateListing request that carries is_active alone: no file, and every
\* stored image retained
SetListingActive(id, u, active) ==
    /\ id \in DOMAIN db.listings
    /\ Apply("updateListing", u, id,
             updateListing(db, id, u,
                           [active |-> active, keep |-> db.listings[id].image_urls, n |-> 0],
                           [upOk |-> {}, delOk |-> {}, dbOk |-> TRUE]))

SaveListing(u, l) == Apply("saveListing", u, l, saveListing(db, u, l))
GetSavedProperties(u, page, limit) ==
    Apply("getSavedProperties", u, NoId, getSavedProperties(db, u, page, limit))
UpdateSavedProperty(id, u, status) ==
    Apply("updateSavedProperty", u, id, updateSavedProperty(db, id, u, status))
DeleteSavedProperty(id, u) ==
    Apply("deleteSavedProperty", u, id, deleteSavedProperty(db, id, u))

ScheduleViewing(u, l) == Apply("scheduleViewing", u, l, scheduleViewing(db, u, l))
UpdateViewing(id, u, attended) ==
    Apply("updateViewing", u, id, updateViewing(db, id, u, attended))
DeleteViewing(id, u) == Apply("deleteViewing", u, id, deleteViewing(db, id, u))

CreateComparison(u, name, listingIds) ==
    Apply("createComparison", u, NoId, createComparison(db, u, name, listingIds))
GetDetailedComparison(id, u) ==
    Apply("getDetailedComparison", u, id, getDetailedComparison(db, id, u))
UpdateComparison(id, u) ==
    \E in \in UpdateComparisonInputs :
        Apply("updateComparison", u, id, updateComparison(db, id, u, in))
DeleteComparison(id, u) == Apply("deleteComparison", u, id, deleteComparison(db, id, u))

CreateTag(u, raw) == Apply("createTag", u, NoId, createTag(db, u, raw))
UpdateTag(id, u, raw) == Apply("updateTag", u, id, updateTag(db, id, u, raw))
DeleteTag(id, u) == Apply("deleteTag", u, id, deleteTag(db, id, u))
AddTagToSavedProperty(u, sp, tag) ==
    Apply("addTagToSavedProperty", u, sp, addTagToSavedProperty(db, u, sp, tag))
RemoveTagFromSavedProperty(u, sp, tag) ==
    Apply("removeTagFromSavedProperty", u, sp, removeTagFromSavedProperty(db, u, sp, tag))

CreateProperty(u, imageUrls) ==
    Apply("createProperty", u, NoId, createProperty(db, u, imageUrls))
UpdateProperty(id, u, data) ==
    Apply("updateProperty", u, id, updateProperty(db, id, u, data))
DeleteProperty(id, u) ==
    \E in \in DeletePropertyInputs(db, id) :
        Apply("deleteProperty", u, id, deleteProperty(db, id, u, in))
ReorderPropertyImages(id, u, imageUrls) ==
    Apply("reorderPropertyImages", u, id, reorderPropertyImages(db, id, u, imageUrls))
AddPropertyImages(id, u, n) ==
    \E env \in AddPropertyImagesOutcomes(db, id, u, n) :
        Apply("addPropertyImages", u, id, addPropertyImages(db, id, u, n, env))
DeletePropertyImage(id, u, imageUrl) ==
    \E outcome \in DeleteImageOutcomes :
        Apply("deletePropertyImage", u, id, deletePropertyImage(db, id, u, imageUrl, outcome))
BrowseAllProperties(page, limit) ==
    Apply("browseAllProperties", NoUser, NoId, browseAllProperties(db, page, limit))
ListMyProperties(u, page, limit) ==
    Apply("listMyProperties", u, NoId, listMyProperties(db, u, page, limit))

SearchPublicListingsBy(u, bedrooms, page, limit, sortBy) ==
    Apply("searchPublicListings", u, NoId,
          searchPublicListingsBy(db, bedrooms, u, page, limit, sortBy))
GetSavedPropertiesBy(u, bedrooms, page, limit, sortBy) ==
    Apply("getSavedProperties", u, NoId,
          getSavedPropertiesBy(db, u, bedrooms, page, limit, sortBy))
BrowseAllPropertiesBy(bedrooms, page, limit, sort) ==
    Apply("browseAllProperties", NoUser, NoId,
          PropertyListBy(db, NoUser, bedrooms, page, limit, sort))
ListMyPropertiesBy(u, bedrooms, page, limit, sort) ==
    Apply("listMyProperties", u, NoId, PropertyListBy(db, u, bedrooms, page, limit, sort))

RegisterUser(email, password) ==
    Apply("registerUser", NoUser, NoId, registerUser(db, email, password))
LoginUser(email, password) ==
    Apply("loginUser", NoUser, NoId, loginUser(db, email, password))
FindOrCreateGoogleUser(googleId, email) ==
    Apply("findOrCreateGoogleUser", NoUser, NoId, findOrCreateGoogleUser(db, googleId, email))

\* ---------------------------------------------------------------- specification
\* listing run: Listing rows are created, read, updated and soft-deleted
NextListings ==
    \/ \E u \in Users, n \in FileCounts : CreateListingStart(u, n)
    \/ \E i \in 1..Max(FileCounts), ok \in BOOLEAN : UploadSettles(i, ok)
    \/ \E dbOk \in BOOLEAN, delOk \in BOOLEAN : CreateListingResolves(dbOk, delOk)
    \/ \E delOk \in BOOLEAN : CreateListingRejects(delOk)
    \/ \E id \in ReqIds : GetListingById(id)
    \/ \E u \in Users, page \in Pages, limit \in Limits, a \in {"any", "true", "false"} :
          GetMyListings(u, page, limit, a)
    \/ \E id \in ReqIds, u \in Users : UpdateListing(id, u)
    \/ \E id \in ReqIds, u \in Users : DeleteListing(id, u)
SpecListing == InitListing /\ [][NextListings]_vars

\* market run: hunters search, save and visit the Listing rows
NextMarket ==
    \/ \E u \in Users, l \in ReqIds : SaveListing(u, l)
    \/ \E u \in Users, page \in Pages, limit \in Limits : GetSavedProperties(u, page, limit)
    \/ \E id \in ReqIds, u \in Users, s \in Statuses : UpdateSavedProperty(id, u, s)
    \/ \E id \in ReqIds, u \in Users : DeleteSavedProperty(id, u)
    \/ \E u \in Users, l \in ReqIds : ScheduleViewing(u, l)
    \/ \E id \in ReqIds, u \in Users, a \in BOOLEAN : UpdateViewing(id, u, a)
    \/ \E id \in ReqIds, u \in Users : DeleteViewing(id, u)
    \/ \E id \in ReqIds, u \in Users : DeleteListing(id, u)
    \/ \E id \in ReqIds : GetListingById(id)
    \/ \E u \in Users \cup {NoUser}, page \in Pages, limit \in Limits :
          SearchPublicListings(u, page, limit)
SpecMarket == InitMarket /\ [][NextMarket]_vars

\* comparison run
NextComparisons ==
    \/ \E u \in Users, ids \in SeqsUpTo(ReqIds, 2) : CreateComparison(u, "n1", ids)
    \/ \E id \in ReqIds, u \in Users : GetDetailedComparison(id, u)
    \/ \E id \in ReqIds, u \in Users : UpdateComparison(id, u)
    \/ \E id \in ReqIds, u \in Users : DeleteComparison(id, u)
    \/ \E id \in ReqIds, u \in Users : DeleteListing(id, u)
    \/ \E id \in ReqIds, u \in Users, a \in {"true", "false"} : SetListingActive(id, u, a)
SpecComparison == InitComparison /\ [][NextComparisons]_vars

\* tag run
NextTags ==
    \/ \E u \in Users, l \in ReqIds : SaveListing(u, l)
    \/ \E id \in ReqIds, u \in Users : DeleteSavedProperty(id, u)
    \/ \E u \in Users, raw \in RawNames : CreateTag(u, raw)
    \/ \E id \in ReqIds, u \in Users, raw \in RawNames \cup {NoName} : UpdateTag(id, u, raw)
    \/ \E id \in ReqIds, u \in Users : DeleteTag(id, u)
    \/ \E u \in Users, sp \in ReqIds, t \in ReqIds : AddTagToSavedProperty(u, sp, t)
    \/ \E u \in Users, sp \in ReqIds, t \in ReqIds : RemoveTagFromSavedProperty(u, sp, t)
SpecTag == InitTag /\ [][NextTags]_vars

\* property run
NextProperty ==
    \/ \E u \in Users, urls \in ImageLists : CreateProperty(u, urls)
    \/ \E id \in ReqIds, u \in Users, data \in ImageLists : UpdateProperty(id, u, data)
    \/ \E id \in ReqIds, u \in Users : DeleteProperty(id, u)
    \/ \E id \in ReqIds, u \in Users, urls \in ImageLists : ReorderPropertyImages(id, u, urls)
    \/ \E page \in {0} \cup Pages, limit \in {0} \cup Limits : BrowseAllProperties(page, limit)
    \/ \E u \in Users, page \in {0} \cup Pages, limit \in {0} \cup Limits :
          ListMyProperties(u, page, limit)
SpecProperty == InitProperty /\ [][NextProperty]_vars

\* intake run: a listing is being created while hunters already save and visit it
NextIntake ==
    \/ \E u \in Users, n \in FileCounts : CreateListingStart(u, n)
    \/ \E i \in 1..Max(FileCounts), ok \in BOOLEAN : UploadSettles(i, ok)
    \/ \E dbOk \in BOOLEAN, delOk \in BOOLEAN : CreateListingResolves(dbOk, delOk)
    \/ \E delOk \in BOOLEAN : CreateListingRejects(delOk)
    \/ \E u \in Users, l \in ReqIds : SaveListing(u, l)
    \/ \E u \in Users, l \in ReqIds : ScheduleViewing(u, l)
    \/ \E id \in ReqIds, u \in Users : UpdateListing(id, u)
    \/ \E id \in ReqIds, u \in Users : DeleteListing(id, u)
SpecIntake == InitIntake /\ [][NextIntake]_vars

\* auth run: accounts are registered, logged in and reached through Google
NextAuth ==
    \/ \E e \in Emails, p \in Passwords : RegisterUser(e, p)
    \/ \E e \in Emails, p \in Passwords : LoginUser(e, p)
    \/ \E g \in GoogleIds, e \in Emails : FindOrCreateGoogleUser(g, e)
    \/ \E e \in Emails, p \in Passwords : RegisterUserChecks(e, p)
    \/ RegisterUserCreates
SpecAuth == InitAuth /\ [][NextAuth]_vars

\* gallery run: the images of a property are added, deleted and reordered
NextGallery ==
    \/ \E u \in Users, urls \in ImageLists : CreateProperty(u, urls)
    \/ \E id \in ReqIds, u \in Users, n \in FileCounts : AddPropertyImages(id, u, n)
    \/ \E id \in ReqIds, u \in Users, url \in UrlPool : DeletePropertyImage(id, u, url)
    \/ \E id \in ReqIds, u \in Users, urls \in ImageLists : ReorderPropertyImages(id, u, urls)
    \/ \E id \in ReqIds, u \in Users : DeleteProperty(id, u)
SpecGallery == InitGallery /\ [][NextGallery]_vars

\* catalog run: listings, saved properties and properties are listed with a
\* bedrooms filter and a sort key
NextCatalog ==
    \/ \E u \in Users, l \in ReqIds : SaveListing(u, l)
    \/ \E id \in ReqIds, u \in Users : DeleteSavedProperty(id, u)
    \/ \E id \in ReqIds, u \in Users : DeleteListing(id, u)
    \/ \E u \in Users : CreateProperty(u, <<>>)
    \/ \E id \in ReqIds, u \in Users : DeleteProperty(id, u)
    \/ \E u \in Users \cup {NoUser}, b \in BedroomCounts, page \in Pages, limit \in Limits,
          sortBy \in SortKeys : SearchPublicListingsBy(u, b, page, limit, sortBy)
    \/ \E u \in Users, b \in BedroomCounts, page \in Pages, limit \in Limits,
          sortBy \in SortKeys : GetSavedPropertiesBy(u, b, page, limit, sortBy)
    \/ \E b \in BedroomCounts, page \in Pages, limit \in Limits, sort \in SortKeys :
          BrowseAllPropertiesBy(b, page, limit, sort)
    \/ \E u \in Users, b \in BedroomCounts, page \in Pages, limit \in Limits,
          sort \in SortKeys : ListMyPropertiesBy(u, b, page, limit, sort)
SpecCatalog == InitCatalog /\ [][NextCatalog]_vars

\* paging run: properties are created and deleted while a list call is between
\* its count and its findMany
NextPaging ==
    \/ \E u \in Users : CreateProperty(u, <<>>)
    \/ \E id \in ReqIds, u \in Users : DeleteProperty(id, u)
    \/ \E owner \in Users \cup {NoUser}, page \in Pages, limit \in Limits :
          PropertyListCounts(owner, page, limit)
    \/ PropertyListFinds
SpecPaging == InitPaging /\ [][NextPaging]_vars

Next ==
    \/ focus = "listing" /\ NextListings
    \/ focus = "market" /\ NextMarket
    \/ focus = "comparison" /\ NextComparisons
    \/ focus = "tag" /\ NextTags
    \/ focus = "property" /\ NextProperty
    \/ focus = "intake" /\ NextIntake
    \/ focus = "auth" /\ NextAuth
    \/ focus = "gallery" /\ NextGallery
    \/ focus = "catalog" /\ NextCatalog
    \/ focus = "paging" /\ NextPaging
Spec == Init /\ [][Next]_vars

\* ================================================================ properties
\* the number of SavedProperty rows of a user
SavedCount(d, u) == Cardinality({s \in DOMAIN d.savedProps : d.savedProps[s].user_id = u})

\* C1, as stated: whenever a SavedProperty for (user, listing) exists, a further
\* saveListing(user, listing) fails with a ValidationError and leaves the
\* SavedProperty rows, and so the user's saved-property count, unchanged.
C1_DuplicateSaveIsValidationError ==
    \A u \in Users, l \in ReqIds :
        SavedPairTaken(db, u, l) =>
            /\ saveListing(db, u, l).result = "ValidationError"
            /\ saveListing(db, u, l).db.savedProps = db.savedProps
            /\ SavedCount(saveListing(db, u, l).db, u) = SavedCount(db, u)

\* C1, amended: whenever a SavedProperty for (user, listing) exists, a further
\* saveListing(user, listing) fails and leaves every store unchanged; the error
\* is a ValidationError while the listing is active, and a NotFoundError once
\* the listing has been soft-deleted.
C1_DuplicateSaveRejected ==
    \A u \in Users, l \in ReqIds :
        SavedPairTaken(db, u, l) =>
            /\ saveListing(db, u, l).result =
                   IF db.listings[l].is_active THEN "ValidationError" ELSE "NotFoundError"
            /\ saveListing(db, u, l).db = db
            /\ SavedCount(saveListing(db, u, l).db, u) = SavedCount(db, u)

\* a user has saved two listings, one since soft-deleted, and saves each again
C1_Witness ==
    \E u \in Users, l1 \in ReqIds, l2 \in ReqIds :
        /\ SavedPairTaken(db, u, l1) /\ SavedPairTaken(db, u, l2)
        /\ saveListing(db, u, l1).result = "ValidationError"
        /\ saveListing(db, u, l2).result = "NotFoundError"

\* the ids on a page of searchPublicListings
SearchIds(d, u, page, limit) ==
    {searchPublicListings(d, u, page, limit).out.items[i].id :
        i \in DOMAIN searchPublicListings(d, u, page, limit).out.items}

\* C2, as stated: once a Listing has been soft-deleted, no page of
\* searchPublicListings returns it, for any requester, and getListingById still
\* returns it, with is_active = false, when some user holds a SavedProperty
\* that references it.
C2_SoftDeletedListingStaysReadable ==
    \A l \in DOMAIN db.listings :
        ~db.listings[l].is_active =>
            /\ \A u \in Users \cup {NoUser}, page \in Pages, limit \in Limits :
                   l \notin SearchIds(db, u, page, limit)
            /\ (\E u \in Users : SavedPairTaken(db, u, l)) =>
                   /\ getListingById(db, l).result = "ok"
                   /\ getListingById(db, l).out.is_active = FALSE

\* the part of C2 that the code keeps: a soft-deleted Listing is on no page of
\* searchPublicListings
C2_SearchExcludesSoftDeleted ==
    \A l \in DOMAIN db.listings :
        ~db.listings[l].is_active =>
            \A u \in Users \cup {NoUser}, page \in Pages, limit \in Limits :
                l \notin SearchIds(db, u, page, limit)

\* a saved listing has just been soft-deleted by its owner
C2_Witness ==
    /\ last.op = "deleteListing"
    /\ \E u \in Users : SavedPairTaken(db, u, last.id)
    /\ ~db.listings[last.id].is_active

\* C3: every stored Comparison holds at least two listing ids; an
\* updateComparison that supplies fewer than two listing ids (the empty list
\* included) changes nothing, whoever calls it, and fails with a
\* ValidationError when the caller owns the comparison.
C3_ComparisonKeepsTwoListings ==
    /\ \A c \in DOMAIN db.comparisons : Len(db.comparisons[c].listing_ids) >= 2
    /\ \A c \in DOMAIN db.comparisons, u \in Users, in \in UpdateComparisonInputs :
           (in.given /\ Len(in.listing_ids) < 2) =>
               /\ updateComparison(db, c, u, in).db = db
               /\ updateComparison(db, c, u, in).result # "ok"
               /\ u = db.comparisons[c].user_id =>
                      updateComparison(db, c, u, in).result = "ValidationError"

\* a comparison has been updated, and its owner now submits the empty list and
\* a list of one listing
C3_Witness ==
    /\ last.op = "updateComparison"
    /\ last.id \in DOMAIN db.comparisons
    /\ \E l \in DOMAIN db.listings :
          /\ db.listings[l].is_active
          /\ updateComparison(db, last.id, db.comparisons[last.id].user_id,
                 [name |-> NoName, given |-> TRUE, listing_ids |-> <<l>>]).result
                 = "ValidationError"
    /\ updateComparison(db, last.id, db.comparisons[last.id].user_id,
           [name |-> NoName, given |-> TRUE, listing_ids |-> <<>>]).result
           = "ValidationError"

\* C4: reorderPropertyImages with a list whose length differs from the stored
\* list, or that holds a reference not stored, changes nothing, whoever calls
\* it, and fails with a ValidationError when the caller owns the property.
C4_ReorderRejectsOtherSets ==
    \A p \in DOMAIN db.properties, u \in Users, urls \in ImageLists :
        (\/ Len(urls) # Len(db.properties[p].image_urls)
         \/ \E i \in DOMAIN urls : urls[i] \notin Range(db.properties[p].image_urls)) =>
            /\ reorderPropertyImages(db, p, u, urls).db = db
            /\ reorderPropertyImages(db, p, u, urls).result # "ok"
            /\ u = db.properties[p].user_id =>
                   reorderPropertyImages(db, p, u, urls).result = "ValidationError"

\* a property with two images has been reordered, and its owner now submits a
\* list that omits one reference and a list that holds a foreign one
C4_Witness ==
    /\ last.op = "reorderPropertyImages"
    /\ last.id \in DOMAIN db.properties
    /\ db.properties[last.id].image_urls = <<Url(2), Url(1)>>
    /\ reorderPropertyImages(db, last.id, db.properties[last.id].user_id,
                             <<Url(1)>>).result = "ValidationError"
    /\ reorderPropertyImages(db, last.id, db.properties[last.id].user_id,
                             <<BadUrl>>).result = "ValidationError"

\* C5, as stated: when a createListing call with at least one file reports
\* success, the stored image list of the new listing is the list of the urls
\* its uploads returned, in the order of the files, whatever the order in which
\* the uploads settled, and getListingById returns the listing with that list.
C5_ImagesInSubmittedOrder ==
    (last.op = "createListing" /\ last.result = "ok") =>
        /\ last.id \in DOMAIN db.listings
        /\ Len(last.out.urls) >= 1
        /\ db.listings[last.id].image_urls = last.out.urls
        /\ getListingById(db, last.id).result = "ok"
        /\ getListingById(db, last.id).out.image_urls = last.out.urls

\* the part of C5 that the code keeps: the stored list is in the order of the
\* files, and getListingById returns it unless the listing was soft-deleted
\* while the call was running
C5_StoredInSubmittedOrder ==
    (last.op = "createListing" /\ last.result = "ok") =>
        /\ last.id \in DOMAIN db.listings
        /\ Len(last.out.urls) >= 1
        /\ db.listings[last.id].image_urls = last.out.urls
        /\ db.listings[last.id].is_active =>
               /\ getListingById(db, last.id).result = "ok"
               /\ getListingById(db, last.id).out.image_urls = last.out.urls

\* a createListing call with two files has reported success after its second
\* upload settled first
C5_Witness ==
    /\ last.op = "createListing" /\ last.result = "ok"
    /\ last.out.done = <<2, 1>>
    /\ db.listings[last.id].is_active

\* max(1, ceil(total / limit))
FlooredPages(total, limit) == Max({1, CeilDiv(total, limit)})

\* C6, as stated: every paginated list reports
\* totalPages = max(1, ceil(total / limit)), for every page >= 1 and limit >= 1.
C6_TotalPagesAtLeastOne ==
    \A u \in Users, page \in Pages, limit \in Limits :
        /\ browseAllProperties(db, page, limit).out.pagination.totalPages =
               FlooredPages(browseAllProperties(db, page, limit).out.pagination.total, limit)
        /\ listMyProperties(db, u, page, limit).out.pagination.totalPages =
               FlooredPages(listMyProperties(db, u, page, limit).out.pagination.total, limit)
        /\ \A a \in {"any", "true", "false"} :
               getMyListings(db, u, page, limit, a).out.totalPages =
                   FlooredPages(getMyListings(db, u, page, limit, a).out.totalCount, limit)
        /\ searchPublicListings(db, u, page, limit).out.totalPages =
               FlooredPages(searchPublicListings(db, u, page, limit).out.totalCount, limit)
        /\ getSavedProperties(db, u, page, limit).out.totalPages =
               FlooredPages(getSavedProperties(db, u, page, limit).out.totalCount, limit)

\* the part of C6 that the code keeps: the Property lists, which go through
\* calculatePagination
C6_PropertyPagesAtLeastOne ==
    \A u \in Users, page \in Pages, limit \in Limits :
        /\ browseAllProperties(db, page, limit).out.pagination.totalPages =
               FlooredPages(browseAllProperties(db, page, limit).out.pagination.total, limit)
        /\ listMyProperties(db, u, page, limit).out.pagination.totalPages =
               FlooredPages(listMyProperties(db, u, page, limit).out.pagination.total, limit)

\* C7: no two Tags of one user have the same name; a createTag or updateTag
\* whose trimmed name is the name of another Tag of the user fails with a
\* ValidationError and changes nothing, while createTag with a name that only
\* Tags of other users have succeeds.
C7_TagNamesUniquePerUser ==
    /\ \A t1 \in DOMAIN db.tags, t2 \in DOMAIN db.tags :
           (t1 # t2 /\ db.tags[t1].user_id = db.tags[t2].user_id) =>
               db.tags[t1].name # db.tags[t2].name
    /\ \A u \in Users, raw \in RawNames :
           IF \E t \in DOMAIN db.tags : db.tags[t].user_id = u /\ db.tags[t].name = Trim(raw)
           THEN /\ createTag(db, u, raw).result = "ValidationError"
                /\ createTag(db, u, raw).db = db
           ELSE /\ createTag(db, u, raw).result = "ok"
                /\ createTag(db, u, raw).db.tags[db.nextId] =
                       [user_id |-> u, name |-> Trim(raw)]
    /\ \A id \in DOMAIN db.tags, raw \in RawNames :
           (\E t \in DOMAIN db.tags \ {id} :
                db.tags[t].user_id = db.tags[id].user_id /\ db.tags[t].name = Trim(raw)) =>
               /\ updateTag(db, id, db.tags[id].user_id, raw).result = "ValidationError"
               /\ updateTag(db, id, db.tags[id].user_id, raw).db = db

\* two users each have a tag named "a", one of them has just created a second
\* tag, and now asks for the name "a" again
C7_Witness ==
    /\ last.op = "createTag"
    /\ \E t1 \in DOMAIN db.tags, t2 \in DOMAIN db.tags :
          /\ db.tags[t1].user_id # db.tags[t2].user_id
          /\ db.tags[t1].name = "a" /\ db.tags[t2].name = "a"
          /\ last.out \in DOMAIN db.tags \ {t1, t2}
          /\ db.tags[last.out].user_id = db.tags[t1].user_id
          /\ updateTag(db, last.out, db.tags[t1].user_id, " a").result = "ValidationError"
          /\ createTag(db, db.tags[t1].user_id, "a").result = "ValidationError"

\* the two extreme outcomes of the outside world for an updateListing request:
\* every upload, deletion and write succeeds, or every one fails
AnyOutcome(req) ==
    {[upOk |-> 1..req.n, delOk |-> 1..ImgBudget, dbOk |-> TRUE],
     [upOk |-> {}, delOk |-> {}, dbOk |-> FALSE]}
StrangerTo(owner) == Users \ {owner}
AnyComparisonInput == [name : {NoName, "n2"}, given : BOOLEAN, listing_ids : SeqsUpTo(ReqIds, 2)]

\* C8: an update or delete of a Listing, SavedProperty, Viewing, Comparison or
\* Tag, or a tag attach or detach, whose target does not exist or belongs to
\* another user, leaves every store as it was: the rows, the remote objects and
\* the id counters.
C8_RejectedCallsWriteNothing ==
    /\ \A id \in ReqIds, u \in Users :
          (id \notin DOMAIN db.listings \/ db.listings[id].user_id # u) =>
              /\ deleteListing(db, id, u).db = db
              /\ \A req \in UpdateListingRequests(db, id) : \A env \in AnyOutcome(req) :
                     updateListing(db, id, u, req, env).db = db
    /\ \A id \in ReqIds, u \in Users :
          (id \notin DOMAIN db.savedProps \/ db.savedProps[id].user_id # u) =>
              /\ deleteSavedProperty(db, id, u).db = db
              /\ \A st \in Statuses : updateSavedProperty(db, id, u, st).db = db
              /\ \A t \in ReqIds :
                     /\ addTagToSavedProperty(db, u, id, t).db = db
                     /\ removeTagFromSavedProperty(db, u, id, t).db = db
    /\ \A id \in ReqIds, u \in Users :
          (id \notin DOMAIN db.viewings \/ db.viewings[id].user_id # u) =>
              /\ deleteViewing(db, id, u).db = db
              /\ \A a \in BOOLEAN : updateViewing(db, id, u, a).db = db
    /\ \A id \in ReqIds, u \in Users :
          (id \notin DOMAIN db.comparisons \/ db.comparisons[id].user_id # u) =>
              /\ deleteComparison(db, id, u).db = db
              /\ \A in \in AnyComparisonInput : updateComparison(db, id, u, in).db = db
    /\ \A id \in ReqIds, u \in Users :
          (id \notin DOMAIN db.tags \/ db.tags[id].user_id # u) =>
              /\ deleteTag(db, id, u).db = db
              /\ \A raw \in RawNames \cup {NoName} : updateTag(db, id, u, raw).db = db
              /\ \A sp \in ReqIds :
                     /\ addTagToSavedProperty(db, u, sp, id).db = db
                     /\ removeTagFromSavedProperty(db, u, sp, id).db = db

\* a user's tag is attached to the user's saved property, and the other user
\* asks to delete the saved property, to delete the tag and to detach the tag
C8_Witness ==
    \E sp \in DOMAIN db.savedProps, t \in DOMAIN db.tags :
        /\ <<sp, t>> \in db.spTags
        /\ \A u \in StrangerTo(db.savedProps[sp].user_id) :
              /\ deleteSavedProperty(db, sp, u).result = "ForbiddenError"
              /\ deleteTag(db, t, u).result = "ForbiddenError"
              /\ removeTagFromSavedProperty(db, u, sp, t).result = "NotFoundError"

\* what the ownership guard of section 4.1 reports for a target: NotFoundError
\* when absent, ForbiddenError when owned by another user
Guarded(rows, id, u, result) ==
    /\ id \notin DOMAIN rows => result = "NotFoundError"
    /\ (id \in DOMAIN rows /\ rows[id].user_id # u) => result = "ForbiddenError"

\* C9 for the update and delete operations of the six entities
UpdatesAndDeletesGuarded ==
    \A id \in ReqIds, u \in Users :
        /\ Guarded(db.listings, id, u, deleteListing(db, id, u).result)
        /\ \A req \in UpdateListingRequests(db, id) : \A env \in AnyOutcome(req) :
               Guarded(db.listings, id, u, updateListing(db, id, u, req, env).result)
        /\ Guarded(db.properties, id, u, deleteProperty(db, id, u,
                       [failAt |-> 0, err |-> "AuthError"]).result)
        /\ \A urls \in ImageLists :
               /\ Guarded(db.properties, id, u, updateProperty(db, id, u, urls).result)
               /\ Guarded(db.properties, id, u, reorderPropertyImages(db, id, u, urls).result)
        /\ Guarded(db.savedProps, id, u, deleteSavedProperty(db, id, u).result)
        /\ \A st \in Statuses :
               Guarded(db.savedProps, id, u, updateSavedProperty(db, id, u, st).result)
        /\ Guarded(db.viewings, id, u, deleteViewing(db, id, u).result)
        /\ \A a \in BOOLEAN : Guarded(db.viewings, id, u, updateViewing(db, id, u, a).result)
        /\ Guarded(db.comparisons, id, u, deleteComparison(db, id, u).result)
        /\ \A in \in AnyComparisonInput :
               Guarded(db.comparisons, id, u, updateComparison(db, id, u, in).result)
        /\ Guarded(db.tags, id, u, deleteTag(db, id, u).result)
        /\ \A raw \in RawNames \cup {NoName} :
               Guarded(db.tags, id, u, updateTag(db, id, u, raw).result)

C10_FailedCreateLeavesNothing ==
    (last.op = "createListing" /\ last.result \in {"AuthError", "StorageError"}) =>
        /\ last.id \notin DOMAIN db.listings
        /\ last.out.uploaded \cap db.remote = {}

\* a createListing call with two files has reported the failure of one upload
\* after the other had stored its object
C10_Witness ==
    /\ last.op = "createListing" /\ last.result = "AuthError"
    /\ Len(last.out.urls) = 2
    /\ last.out.uploaded # {}

\* the physical deletion of a Listing row that the call in flight performs if it
\* fails now: an upload has failed, or all have settled and the final write fails
RollbackEnabled == call.stage = "uploading" /\ (Failed(call) # {} \/ Pending(call) = {})

\* C11: no Listing row is physically deleted while a SavedProperty or a Viewing
\* references it: whenever the createListing call in flight may run its rollback,
\* the deletion of its row removes no SavedProperty and no Viewing.
C11_NoCascadeOverReferences ==
    RollbackEnabled =>
        /\ Rollback(db, call, TRUE).savedProps = db.savedProps
        /\ Rollback(db, call, TRUE).viewings = db.viewings

\* the rollback of a createListing call has just deleted the row of a listing
\* that a hunter had saved or booked a viewing of while the upload was running
C11_Witness ==
    /\ last.op = "createListing" /\ last.result = "AuthError"
    /\ last.id \notin DOMAIN db.listings
    /\ db.nextId > last.id + 1
    /\ db.savedProps = Empty /\ db.viewings = Empty

\* C12: every User has exactly one credential that is not null: a password
\* hash or a Google id, never both and never neither.
C12_ExactlyOneCredential ==
    \A i \in DOMAIN db.users :
        (db.users[i].password_hash # Null) # (db.users[i].google_id # Null)

\* a Google sign-in has just been linked to an account registered with a password
C12_Witness ==
    /\ last.op = "findOrCreateGoogleUser"
    /\ \E i \in DOMAIN db.users :
          /\ db.users[i].password_hash = hashPassword("p1")
          /\ db.users[i].google_id = "g1"
          /\ db.users[i].auth_provider = "google"

\* the errors the update and delete operations on saved properties, viewings
\* and listings, and saveListing, raise in the current state
RaisedErrors ==
    UNION {{deleteListing(db, id, u).result, saveListing(db, u, id).result,
            deleteSavedProperty(db, id, u).result, deleteViewing(db, id, u).result}
           : id \in ReqIds, u \in Users} \ {"ok"}

\* C13: the status of an error response depends only on the kind of the error,
\* two errors of different kinds raised by services never get the same status,
\* and an unclassified error gets the internal-error status.
C13_EachKindItsOwnStatus ==
    /\ \A k1 \in RaisedErrors, k2 \in RaisedErrors : k1 # k2 => Respond(k1) # Respond(k2)
    /\ Respond("Error") = InternalErrorStatus

\* a duplicate save, a missing target and a target of another user are all
\* answered in the current state
C13_Witness ==
    /\ last.op = "saveListing"
    /\ {"ValidationError", "NotFoundError", "ForbiddenError"} \subseteq RaisedErrors

\* C14: saveListing and scheduleViewing on a listing that does not exist or is
\* not active fail with NotFoundError and create nothing; so a call that creates
\* a SavedProperty or a Viewing names a listing that exists and is active.
C14_CreationNeedsActiveListing ==
    \A u \in Users, l \in ReqIds :
        /\ ~(l \in DOMAIN db.listings /\ db.listings[l].is_active) =>
               /\ saveListing(db, u, l).result = "NotFoundError"
               /\ saveListing(db, u, l).db = db
               /\ scheduleViewing(db, u, l).result = "NotFoundError"
               /\ scheduleViewing(db, u, l).db = db
        /\ saveListing(db, u, l).db.savedProps # db.savedProps =>
               l \in DOMAIN db.listings /\ db.listings[l].is_active
        /\ scheduleViewing(db, u, l).db.viewings # db.viewings =>
               l \in DOMAIN db.listings /\ db.listings[l].is_active

\* a listing has just been soft-deleted while the other is still active, and a
\* hunter asks to save and to visit each of them
C14_Witness ==
    /\ last.op = "deleteListing"
    /\ \E gone \in DOMAIN db.listings, l \in DOMAIN db.listings, u \in Users :
          /\ ~db.listings[gone].is_active
          /\ saveListing(db, u, gone).result = "NotFoundError"
          /\ scheduleViewing(db, u, gone).result = "NotFoundError"
          /\ saveListing(db, u, l).result = "ok"
          /\ scheduleViewing(db, u, l).result = "ok"

\* the SavedProperty rows of a user for a listing
SavedFor(d, u, l) ==
    {sp \in DOMAIN d.savedProps :
        d.savedProps[sp].user_id = u /\ d.savedProps[sp].listing_id = l}

\* C15: the Viewing that scheduleViewing creates is linked to the caller's
\* SavedProperty for the listing if one exists at that time and is not linked
\* otherwise; a saveListing changes no Viewing, so a Viewing created before the
\* save keeps its empty link.
C15_LinkedAtCreationOnly ==
    \A u \in Users, l \in ReqIds :
        /\ scheduleViewing(db, u, l).result = "ok" =>
               LET r == scheduleViewing(db, u, l)
                   link == r.db.viewings[r.out].saved_property_id
               IN /\ r.out \notin DOMAIN db.viewings
                  /\ SavedFor(db, u, l) # {} => link \in SavedFor(db, u, l)
                  /\ SavedFor(db, u, l) = {} => link = NoId
        /\ saveListing(db, u, l).db.viewings = db.viewings

\* a hunter has just saved a listing of which the hunter already had a viewing:
\* the old viewing is not linked, a new one would be
C15_Witness ==
    /\ last.op = "saveListing" /\ last.result = "ok"
    /\ \E v \in DOMAIN db.viewings :
          /\ db.viewings[v].user_id = last.user
          /\ db.viewings[v].listing_id = last.id
          /\ db.viewings[v].saved_property_id = NoId
          /\ SavedFor(db, last.user, last.id) = {last.out}
          /\ scheduleViewing(db, last.user, last.id).result = "ok"

\* the saved property and the tag both exist and belong to the user
BothOwnedBy(d, u, sp, tag) ==
    /\ sp \in DOMAIN d.savedProps /\ d.savedProps[sp].user_id = u
    /\ tag \in DOMAIN d.tags /\ d.tags[tag].user_id = u

\* C16: attaching or detaching a Tag on a SavedProperty succeeds only when the
\* caller owns both, and every stored association links a SavedProperty and a
\* Tag that exist and have the same owner.
C16_AssociationsWithinOneOwner ==
    /\ \A u \in Users, sp \in ReqIds, t \in ReqIds :
          /\ addTagToSavedProperty(db, u, sp, t).result = "ok" => BothOwnedBy(db, u, sp, t)
          /\ removeTagFromSavedProperty(db, u, sp, t).result = "ok" =>
                 BothOwnedBy(db, u, sp, t)
    /\ \A st \in db.spTags :
          /\ st[1] \in DOMAIN db.savedProps /\ st[2] \in DOMAIN db.tags
          /\ db.savedProps[st[1]].user_id = db.tags[st[2]].user_id

\* a user has just attached a tag to a saved property and may detach it, while
\* a tag of the other user exists, which the user may not attach
C16_Witness ==
    /\ last.op = "addTagToSavedProperty" /\ last.result = "ok"
    /\ \E t \in DOMAIN db.tags, other \in DOMAIN db.tags :
          /\ <<last.id, t>> \in db.spTags
          /\ removeTagFromSavedProperty(db, last.user, last.id, t).result = "ok"
          /\ db.tags[other].user_id # last.user
          /\ addTagToSavedProperty(db, last.user, last.id, other).result = "NotFoundError"
          /\ removeTagFromSavedProperty(db, db.tags[other].user_id, last.id, t).result
                 = "NotFoundError"

\* the public ids of the remote objects a stored image list references
ReferencedIds(urls) == {getPublicIdFromUrl(urls[i]) : i \in DOMAIN urls} \ {0}

\* C17: updateListing deletes remote objects only after the row holds the new
\* image list: when the write of the row fails, every remote object that the
\* stored row references and that existed before the call still exists.
C17_DeletionsFollowTheCommit ==
    \A id \in DOMAIN db.listings :
        \A req \in UpdateListingRequests(db, id) :
            \A env \in UpdateListingOutcomes(db, id, db.listings[id].user_id, req) :
                LET r == updateListing(db, id, db.listings[id].user_id, req, env)
                IN r.result = "StorageError" =>
                       ReferencedIds(r.db.listings[id].image_urls) \cap db.remote
                           \subseteq r.db.remote

\* an updateListing call has just failed at the write of the row after it had
\* deleted the object of an image the row still lists
C17_Witness ==
    /\ last.op = "updateListing" /\ last.result = "StorageError"
    /\ last.id \in DOMAIN db.listings
    /\ ReferencedIds(db.listings[last.id].image_urls) \ db.remote # {}

\* the part of C18 about updateListing: when the uploads and the write succeed,
\* the call succeeds and stores the requested list whichever deletions fail
C18_UpdateListingIgnoresDeleteFailures ==
    \A id \in DOMAIN db.listings :
        \A req \in UpdateListingRequests(db, id) :
            \A env \in UpdateListingOutcomes(db, id, db.listings[id].user_id, req) :
                (env.upOk = 1..req.n /\ env.dbOk) =>
                    LET r == updateListing(db, id, db.listings[id].user_id, req, env)
                    IN /\ r.result = "ok"
                       /\ SubSeq(r.db.listings[id].image_urls, 1, Len(req.keep)) = req.keep
                       /\ Len(r.db.listings[id].image_urls) = Len(req.keep) + req.n

\* C18: on updateListing, deletePropertyImage and deleteProperty a failure of
\* the image store to delete an object is not raised: the call succeeds and
\* the row is updated or removed as requested.
C18_DeleteFailuresAreNotRaised ==
    /\ C18_UpdateListingIgnoresDeleteFailures
    /\ \A p \in DOMAIN db.properties :
          LET owner == db.properties[p].user_id
          IN /\ \A url \in UrlPool, outcome \in DeleteImageOutcomes :
                    getPublicIdFromUrl(url) # 0 =>
                        LET r == deletePropertyImage(db, p, owner, url, outcome)
                        IN /\ r.result = "ok"
                           /\ url \notin Range(r.db.properties[p].image_urls)
             /\ \A in \in DeletePropertyInputs(db, p) :
                    LET r == deleteProperty(db, p, owner, in)
                    IN r.result = "ok" /\ p \notin DOMAIN r.db.properties

\* images have just been added to a property, and the image store refuses to
\* delete the object of one of them
C18_Witness ==
    /\ last.op = "addPropertyImages" /\ last.result = "ok"
    /\ last.id \in DOMAIN db.properties
    /\ \E url \in Range(db.properties[last.id].image_urls) :
          /\ getPublicIdFromUrl(url) \in db.remote
          /\ deletePropertyImage(db, last.id, last.user, url, "AuthError").result = "AuthError"
    /\ \E in \in DeletePropertyInputs(db, last.id) :
          deleteProperty(db, last.id, last.user, in).result = "AuthError"

\* how many times a list holds a reference
Occurrences(urls, x) == Cardinality({i \in DOMAIN urls : urls[i] = x})

\* C19: after a successful reorderPropertyImages the stored list holds the same
\* references as before, each as many times as before, also when the submitted
\* list repeats a reference.
C19_ReorderKeepsTheImages ==
    \A p \in DOMAIN db.properties, urls \in ImageLists :
        LET before == db.properties[p].image_urls
            r == reorderPropertyImages(db, p, db.properties[p].user_id, urls)
        IN r.result = "ok" =>
               \A x \in Range(before) \cup Range(r.db.properties[p].image_urls) :
                   Occurrences(r.db.properties[p].image_urls, x) = Occurrences(before, x)

\* a reorder has just replaced a list of two different images by a list that
\* holds one of them twice
C19_Witness ==
    /\ last.op = "reorderPropertyImages" /\ last.result = "ok"
    /\ last.id \in DOMAIN db.properties
    /\ db.properties[last.id].image_urls = <<Url(1), Url(1)>>

\* an updateListing request that keeps as many urls as the cap allows and
\* carries one more file, and the outcome in which everything succeeds
RequestBeyondCap ==
    [active |-> "absent", keep |-> [i \in 1..PropertyImageCap |-> Url(1)], n |-> 1]
AllSucceeds(req) == [upOk |-> 1..req.n, delOk |-> 1..ImgBudget, dbOk |-> TRUE]

\* the part of C20 that addPropertyImages keeps: on a property that stores as
\* many images as the cap allows, one more file is rejected and nothing changes
C20_PropertyCapEnforced ==
    \A p \in DOMAIN db.properties :
        LET full == [db EXCEPT !.properties[p].image_urls =
                                   [i \in 1..PropertyImageCap |-> Url(1)]]
            env == [failAt |-> 0, dbOk |-> TRUE, cleaned |-> {}]
            r == addPropertyImages(full, p, db.properties[p].user_id, 1, env)
        IN r.result = "ForbiddenError" /\ r.db = full

\* C20: no stored image list is longer than the cap, and an image-bearing
\* operation that would make a list longer than the cap is rejected and changes
\* nothing.
C20_ImageCapEnforced ==
    /\ \A l \in DOMAIN db.listings : Len(db.listings[l].image_urls) <= PropertyImageCap
    /\ \A p \in DOMAIN db.properties : Len(db.properties[p].image_urls) <= PropertyImageCap
    /\ C20_PropertyCapEnforced
    /\ \A id \in DOMAIN db.listings :
          \A req \in UpdateListingRequests(db, id) \cup {RequestBeyondCap} :
              LET r == updateListing(db, id, db.listings[id].user_id, req, AllSucceeds(req))
              IN IF Len(req.keep) + req.n > PropertyImageCap
                 THEN r.result # "ok" /\ r.db = db
                 ELSE Len(r.db.listings[id].image_urls) <= PropertyImageCap

\* the owner has just updated a listing, and now sends a request that keeps as
\* many urls as the cap allows and adds a file
C20_Witness ==
    /\ last.op = "updateListing" /\ last.result = "ok"
    /\ last.id \in DOMAIN db.listings
    /\ Len(updateListing(db, last.id, last.user, RequestBeyondCap,
                          AllSucceeds(RequestBeyondCap)).db.listings[last.id].image_urls)
           > PropertyImageCap

\* the ids a list operation returns when the page is large enough for all rows
Ids(items) == {items[i] : i \in DOMAIN items}
AllSearched(d, u, n) ==
    {searchPublicListingsBy(d, n, u, 1, IdBudget, "absent").out.items[i].id :
        i \in DOMAIN searchPublicListingsBy(d, n, u, 1, IdBudget, "absent").out.items}
AllSaved(d, u, n) == Ids(getSavedPropertiesBy(d, u, n, 1, IdBudget, "absent").out.items)
AllProperties(d, owner, n) ==
    Ids(PropertyListBy(d, owner, n, 1, IdBudget, "absent").out.items)

\* the part of C21 about browseAllProperties and listMyProperties: with only
\* bedrooms = n given they return the rows that match without the filter and
\* have at least n bedrooms
C21_PropertyBedroomsIsAMinimum ==
    \A n \in BedroomCounts \ {0}, owner \in Users \cup {NoUser} :
        AllProperties(db, owner, n) = {p \in AllProperties(db, owner, 0) : Bedrooms(p) >= n}

\* C21: browseAllProperties, listMyProperties, searchPublicListings and
\* getSavedProperties, given only bedrooms = n, return every record that
\* matches without the filter and has at least n bedrooms, not only the
\* records with exactly n bedrooms.
C21_BedroomsIsAMinimum ==
    /\ C21_PropertyBedroomsIsAMinimum
    /\ \A n \in BedroomCounts \ {0}, u \in Users \cup {NoUser} :
           AllSearched(db, u, n) = {l \in AllSearched(db, u, 0) : Bedrooms(l) >= n}
    /\ \A n \in BedroomCounts \ {0}, u \in Users :
           AllSaved(db, u, n) =
               {sp \in AllSaved(db, u, 0) : Bedrooms(db.savedProps[sp].listing_id) >= n}

\* a user has saved an active listing that has more bedrooms than the user now
\* asks for, and a property with more bedrooms than asked for exists
C21_Witness ==
    \E u \in Users, sp \in DOMAIN db.savedProps, p \in DOMAIN db.properties,
       n \in BedroomCounts \ {0} :
        /\ db.savedProps[sp].user_id = u
        /\ db.listings[db.savedProps[sp].listing_id].is_active
        /\ Bedrooms(db.savedProps[sp].listing_id) > n
        /\ Bedrooms(p) > n
        /\ p \in AllProperties(db, NoUser, n)
        /\ sp \notin AllSaved(db, u, n)
        /\ db.savedProps[sp].listing_id \notin AllSearched(db, u, n)

\* the sort keys the Listing and SavedProperty lists know, and those the
\* Property lists know
ListingSortKeys == {"price_asc", "price_desc", "newest"}
PropertySortKeys == {"price_asc", "price_desc", "newest", "oldest", "bedrooms_desc"}

\* the part of C22 about browseAllProperties, listMyProperties and
\* searchPublicListings: with an absent or unknown sort key they return what
\* they return for 'newest'
C22_OtherListsDefaultToNewest ==
    \A b \in BedroomCounts, page \in Pages, limit \in Limits :
        /\ \A key \in SortKeys \ PropertySortKeys, owner \in Users \cup {NoUser} :
               PropertyListBy(db, owner, b, page, limit, key).out
                   = PropertyListBy(db, owner, b, page, limit, "newest").out
        /\ \A key \in SortKeys \ ListingSortKeys, u \in Users \cup {NoUser} :
               searchPublicListingsBy(db, b, u, page, limit, key).out
                   = searchPublicListingsBy(db, b, u, page, limit, "newest").out

\* C22: in browseAllProperties, listMyProperties, searchPublicListings and
\* getSavedProperties an absent or unknown sort key gives the order of
\* creation, newest first: the pages are those of 'newest', and so an unknown
\* key never selects an order by price.
C22_UnknownSortKeyIsNewest ==
    /\ C22_OtherListsDefaultToNewest
    /\ \A b \in BedroomCounts, page \in Pages, limit \in Limits :
           \A key \in SortKeys \ ListingSortKeys, u \in Users :
               getSavedPropertiesBy(db, u, b, page, limit, key).out
                   = getSavedPropertiesBy(db, u, b, page, limit, "newest").out

\* a user has saved two active listings, the dearer one first, and asks for
\* the saved properties with the unknown sort key 'price_low'
C22_Witness ==
    \E u \in Users, s1 \in DOMAIN db.savedProps, s2 \in DOMAIN db.savedProps :
        /\ s1 < s2
        /\ db.savedProps[s1].user_id = u /\ db.savedProps[s2].user_id = u
        /\ Price(db.savedProps[s1].listing_id) > Price(db.savedProps[s2].listing_id)
        /\ getSavedPropertiesBy(db, u, 0, 1, 2, "newest").out.items = <<s2, s1>>
        /\ getSavedPropertiesBy(db, u, 0, 1, 2, "price_low").out.items = <<s1, s2>>
        /\ getSavedPropertiesBy(db, u, 0, 1, 2, "cheapest").out.items = <<s2, s1>>

\* the part of C23 about the lists read in one transaction: getMyListings,
\* searchPublicListings and getSavedProperties report as total the number of
\* rows that match in the stores the page is read from
C23_TransactionalListsAgree ==
    \A u \in Users, page \in Pages, limit \in Limits :
        /\ getMyListings(db, u, page, limit, "any").out.totalCount
               = Cardinality({l \in DOMAIN db.listings : db.listings[l].user_id = u})
        /\ searchPublicListings(db, u, page, limit).out.totalCount
               = Cardinality(PublicWhere(db))
        /\ getSavedProperties(db, u, page, limit).out.totalCount
               = Cardinality(SavedWhere(db, u, 0))

\* C23: the total a paginated list reports and the page it returns come from
\* the same snapshot, also when creates and deletes interleave with the call:
\* the total of a finished browseAllProperties or listMyProperties call is the
\* number of rows that matched when its page was read, and the page holds no
\* more rows than the total.
C23_TotalAndPageFromOneSnapshot ==
    /\ C23_TransactionalListsAgree
    /\ last.op \in {"browseAllProperties", "listMyProperties"} =>
           /\ last.out.pagination.total = last.out.matching
           /\ Len(last.out.items) <= last.out.pagination.total

\* a list call has returned a property although it reports a total of zero:
\* the property was created between its count and its findMany
C23_Witness ==
    /\ last.op \in {"browseAllProperties", "listMyProperties"}
    /\ last.out.pagination.total = 0
    /\ Len(last.out.items) = 1

\* every id of the list is the id of an active Listing
AllActive(d, listingIds) ==
    \A i \in DOMAIN listingIds :
        listingIds[i] \in DOMAIN d.listings /\ d.listings[listingIds[i]].is_active

\* C24: a createComparison, or an updateComparison that supplies a membership
\* list, in which some id is not the id of an active Listing changes nothing
\* and fails, with a ValidationError when the caller passes the ownership
\* guard; an updateComparison by the owner that supplies only a name succeeds,
\* stores the name and leaves the membership as it is, whether or not the
\* members are still active.
C24_MembershipValidated ==
    /\ \A u \in Users, ids \in SeqsUpTo(ReqIds, 2) :
           ~AllActive(db, ids) =>
               /\ createComparison(db, u, "n1", ids).result = "ValidationError"
               /\ createComparison(db, u, "n1", ids).db = db
    /\ \A c \in DOMAIN db.comparisons, u \in Users, in \in UpdateComparisonInputs :
           LET r == updateComparison(db, c, u, in)
           IN /\ (in.given /\ ~AllActive(db, in.listing_ids)) =>
                     /\ r.db = db
                     /\ r.result # "ok"
                     /\ u = db.comparisons[c].user_id => r.result = "ValidationError"
              /\ (~in.given /\ in.name # NoName /\ u = db.comparisons[c].user_id) =>
                     /\ r.result = "ok"
                     /\ r.db.comparisons[c].listing_ids = db.comparisons[c].listing_ids
                     /\ r.db.comparisons[c].name = in.name

\* the owner has just renamed a comparison one of whose members had been
\* soft-deleted, and the same membership is refused on a create and an update
C24_Witness ==
    /\ last.op = "updateComparison" /\ last.result = "ok"
    /\ last.id \in DOMAIN db.comparisons
    /\ db.comparisons[last.id].name = "n2"
    /\ ~AllActive(db, db.comparisons[last.id].listing_ids)
    /\ createComparison(db, last.user, "n1", db.comparisons[last.id].listing_ids).result
           = "ValidationError"
    /\ updateComparison(db, last.id, last.user,
           [name |-> NoName, given |-> TRUE,
            listing_ids |-> db.comparisons[last.id].listing_ids]).result = "ValidationError"

\* C25: on every page of searchPublicListings, whatever the filter and the
\* sort key, a listing is flagged is_saved exactly when the requester is a
\* user who has a SavedProperty for it; for an anonymous requester no listing
\* is flagged.
C25_SavedFlagIsTheRequesters ==
    \A u \in Users \cup {NoUser}, b \in BedroomCounts, page \in Pages, limit \in Limits,
       sortBy \in SortKeys :
        LET items == searchPublicListingsBy(db, b, u, page, limit, sortBy).out.items
        IN \A i \in DOMAIN items :
               items[i].is_saved <=>
                   /\ u # NoUser
                   /\ \E sp \in DOMAIN db.savedProps :
                          /\ db.savedProps[sp].user_id = u
                          /\ db.savedProps[sp].listing_id = items[i].id

\* a user has just saved a listing: a search returns it flagged for the user,
\* and not flagged for the other user and for an anonymous requester
C25_Witness ==
    /\ last.op = "saveListing" /\ last.result = "ok"
    /\ \E other \in Users \ {last.user} :
          /\ [id |-> last.id, is_saved |-> TRUE]
                 \in Range(searchPublicListings(db, last.user, 1, 2).out.items)
          /\ [id |-> last.id, is_saved |-> FALSE]
                 \in Range(searchPublicListings(db, other, 1, 2).out.items)
          /\ [id |-> last.id, is_saved |-> FALSE]
                 \in Range(searchPublicListings(db, NoUser, 1, 2).out.items)

\* the unique indexes hold: of the calls that ask for the same key, one at most
\* has created a row
KeysAreUnique ==
    /\ \A a \in DOMAIN db.savedProps, b \in DOMAIN db.savedProps :
           (/\ db.savedProps[a].user_id = db.savedProps[b].user_id
            /\ db.savedProps[a].listing_id = db.savedProps[b].listing_id) => a = b
    /\ \A a \in DOMAIN db.tags, b \in DOMAIN db.tags : db.tags[a] = db.tags[b] => a = b
    /\ \A a \in DOMAIN db.users, b \in DOMAIN db.users :
           db.users[a].email = db.users[b].email => a = b

\* the part of C26 about the operations that catch the error of the unique
\* index: a saveListing, createTag, updateTag or addTagToSavedProperty that
\* asks for a key already stored fails with a ValidationError and changes
\* nothing, and no key is stored twice
C26_IndexedConflictsAreValidationErrors ==
    /\ KeysAreUnique
    /\ \A u \in Users, l \in ReqIds :
           (SavedPairTaken(db, u, l) /\ db.listings[l].is_active) =>
               saveListing(db, u, l) = R(db, "ValidationError", NoOut)
    /\ \A u \in Users, raw \in RawNames :
           TagNameTaken(db, u, Trim(raw), NoId) =>
               createTag(db, u, raw) = R(db, "ValidationError", NoOut)
    /\ \A t \in DOMAIN db.tags, raw \in RawNames :
           TagNameTaken(db, db.tags[t].user_id, Trim(raw), t) =>
               updateTag(db, t, db.tags[t].user_id, raw) = R(db, "ValidationError", NoOut)
    /\ \A st \in db.spTags :
           addTagToSavedProperty(db, db.tags[st[2]].user_id, st[1], st[2])
               = R(db, "ValidationError", NoOut)

\* C26: saveListing, createTag, updateTag, addTagToSavedProperty and
\* registerUser report a conflict on a unique key as a ValidationError, never as
\* the error of the storage layer, also when two calls for the same key run
\* concurrently, and of two such calls exactly one creates a row.
C26_ConflictsAreValidationErrors ==
    /\ C26_IndexedConflictsAreValidationErrors
    /\ \A e \in Emails, p \in Passwords :
           UsersByEmail(db, e) # {} => registerUser(db, e, p) = R(db, "ValidationError", NoOut)
    /\ last.op = "registerUser" => last.result \in {"ok", "ValidationError"}

\* a registerUser call has just failed at its insert: the email was registered
\* by another call after this call had looked it up
C26_Witness ==
    /\ last.op = "registerUser" /\ last.result = "StorageError"
    /\ Cardinality(UsersByEmail(db, last.out)) = 1
    /\ \E p \in Passwords : registerUser(db, last.out, p).result = "AuthError"

\* the urls of the objects a call uploads that starts in d and ends in e
UploadedBetween(d, e) == {Url(pid) : pid \in d.nextImg .. (e.nextImg - 1)}

\* C27: after a successful updateListing every reference in the stored image
\* list was in the list before the call or is the url of an object this call
\* uploaded: naming a reference in the retained list does not make the listing
\* store it.
C27_StoredReferencesAreOwnOrUploaded ==
    \A id \in DOMAIN db.listings :
        \A req \in UpdateListingRequests(db, id) :
            LET r == updateListing(db, id, db.listings[id].user_id, req, AllSucceeds(req))
            IN r.result = "ok" =>
                   Range(r.db.listings[id].image_urls)
                       \subseteq Range(db.listings[id].image_urls)
                                     \cup UploadedBetween(db, r.db)

\* an updateListing call has just succeeded and left in the stored list a
\* reference that no upload returns
C27_Witness ==
    /\ last.op = "updateListing" /\ last.result = "ok"
    /\ last.id \in DOMAIN db.listings
    /\ BadUrl \in Range(db.listings[last.id].image_urls)

\* C28: deletePropertyImage deletes a remote object only when the caller owns
\* the property and the url is in its stored image list; for a url that is not
\* in the list no remote object is deleted and the stored list is unchanged.
C28_DeletesOnlyListedImages ==
    \A p \in DOMAIN db.properties, u \in Users, url \in UrlPool,
       outcome \in DeleteImageOutcomes :
        LET r == deletePropertyImage(db, p, u, url, outcome)
        IN /\ r.db.remote # db.remote =>
                  /\ u = db.properties[p].user_id
                  /\ url \in Range(db.properties[p].image_urls)
           /\ url \notin Range(db.properties[p].image_urls) =>
                  /\ r.db.remote = db.remote
                  /\ r.db.properties = db.properties

\* the image store holds an object whose url is not in the image list of a
\* property, and the owner of the property has it deleted by naming the url
C28_Witness ==
    \E p \in DOMAIN db.properties, url \in UrlPool :
        /\ url \notin Range(db.properties[p].image_urls)
        /\ getPublicIdFromUrl(url) \in db.remote
        /\ LET r == deletePropertyImage(db, p, db.properties[p].user_id, url, "ok")
           IN /\ r.result = "ok"
              /\ getPublicIdFromUrl(url) \notin r.db.remote
              /\ r.db.properties = db.properties

\* a member of the comparison is a soft-deleted Listing
HasInactiveMember(d, c) ==
    \E i \in DOMAIN d.comparisons[c].listing_ids :
        /\ d.comparisons[c].listing_ids[i] \in DOMAIN d.listings
        /\ ~d.listings[d.comparisons[c].listing_ids[i]].is_active

\* C29: soft-deleting a listing leaves the stored comparisons as they are, and
\* while a member of a stored comparison is soft-deleted getDetailedComparison
\* by the owner fails with a ValidationError, returns no listings and changes
\* nothing; when all members are active it returns the listings in the order
\* of the stored id list.
C29_InactiveMemberFailsTheRead ==
    /\ \A l \in DOMAIN db.listings :
           deleteListing(db, l, db.listings[l].user_id).db.comparisons = db.comparisons
    /\ \A c \in DOMAIN db.comparisons :
           LET r == getDetailedComparison(db, c, db.comparisons[c].user_id)
           IN IF HasInactiveMember(db, c)
              THEN r = R(db, "ValidationError", NoOut)
              ELSE r = R(db, "ok", db.comparisons[c].listing_ids)

\* a member of a stored comparison has just been soft-deleted: the comparison
\* still lists it, the later listing first, and its owner cannot read it
C29_Witness ==
    /\ last.op = "deleteListing"
    /\ \E c \in DOMAIN db.comparisons :
          /\ db.comparisons[c].listing_ids = <<2, 1>>
          /\ last.id \in Range(db.comparisons[c].listing_ids)
          /\ HasInactiveMember(db, c)
          /\ getDetailedComparison(db, c, db.comparisons[c].user_id).result
                 = "ValidationError"

\* C30: when addPropertyImages fails at an upload or at the write of the row,
\* the stored image lists are unchanged, the call reports the error that made
\* it fail, and it has called for the deletion of every object it had uploaded
\* (the image store then holds, of these, the ones whose deletion failed).
C30_FailedAddCleansUp ==
    \A p \in DOMAIN db.properties, n \in FileCounts :
        \A env \in AddPropertyImagesOutcomes(db, p, db.properties[p].user_id, n) :
            LET r == addPropertyImages(db, p, db.properties[p].user_id, n, env)
                uploaded == db.nextImg .. (r.db.nextImg - 1)
            IN (env.failAt # 0 \/ ~env.dbOk) =>
                   /\ r.db.properties = db.properties
                   /\ r.result = IF env.failAt # 0 THEN "AuthError" ELSE "StorageError"
                   /\ r.out.issued = uploaded
                   /\ db.remote \subseteq r.db.remote
                   /\ r.db.remote \ db.remote
                          = {db.nextImg + j - 1 : j \in (1..n) \ env.cleaned} \cap uploaded

\* an addPropertyImages call has just failed at its second upload, after it
\* had uploaded an object and called for its deletion
C30_Witness ==
    /\ last.op = "addPropertyImages" /\ last.result = "AuthError"
    /\ last.id \in DOMAIN db.properties
    /\ Cardinality(last.out.issued) = 1

====
